---- MODULE Spec2Model ----
(***************************************************************************)
(* A model of xword-fill: the crossword filler that reduces grid filling   *)
(* to an exact-cover problem and solves it with Dancing Links.             *)
(*                                                                         *)
(* Two specifications share the exact-cover engine:                        *)
(*   SpecDance  the engine alone, on small arbitrary matrices, with a      *)
(*              callback whose return value is arbitrary;                  *)
(*   Spec       the xword-fill program: load the dictionary, check the     *)
(*              input grid, strip the dictionary, build the matrix, solve, *)
(*              decode and print every cover.                              *)
(*                                                                         *)
(* dancing.c and dancing.h are not among the sources; the engine is        *)
(* modelled from section 4.A of the specification.                         *)
(***************************************************************************)
EXTENDS Integers, Sequences, FiniteSets, TLC

VARIABLES
    pc,             \* where the program is
    grid, w, h,     \* the input grid (row-major, one character per cell)
    NumSolutions, RejectDuplicateWords, UseNaiveMethod, PrintEveryNthSolution,
    dictfile,       \* the lines of the dictionary file
    pat,            \* the pattern handed to xdict_remmatch
    dict,           \* struct xdict: words[k] for k in 0..XDICT_MAXLENGTH-1
    cursor,         \* position of xdict_find in the dictionary: <<k, i>>
    mat,            \* struct dance_matrix
    premat,         \* the matrix as it was when dance_solve was called
    solution,       \* the solution stack: one node per chosen row
    colstack,       \* the column chosen at each level of the recursion
    counts,         \* the running total of each level of the recursion
    result,         \* the value being returned to the level above
    cblog,          \* every callback invocation: rows passed, value returned
    printed_so_far, skipped_so_far,
    out,            \* the grids written to the output, in order
    ns              \* what dance_solve returned

vars == <<pc, grid, w, h, NumSolutions, RejectDuplicateWords, UseNaiveMethod,
          PrintEveryNthSolution, dictfile, pat, dict, cursor, mat, premat,
          solution, colstack, counts, result, cblog, printed_so_far,
          skipped_so_far, out, ns>>

(***************************************************************************)
(* Bounds of the model.                                                    *)
(***************************************************************************)
DanceCols == 3          \* columns of the matrices of SpecDance
DanceRows == 3          \* rows added to a matrix of SpecDance
MaxNumSolutions == 2    \* the largest -n limit tried

(***************************************************************************)
(* While(F, D, st): the value of st after `while (!D(st)) st = F(st);'.   *)
(* The lists of the matrix are hundreds of objects long, more than a       *)
(* recursive definition can walk one by one, so Iterate(F, D, st, n) makes *)
(* up to 2^n steps by doing half of them twice; the 2196 steps of While    *)
(* are more than any loop of the model takes.                              *)
(***************************************************************************)
RECURSIVE Iterate(_, _, _, _)
Iterate(F(_), D(_), st, n) ==
    IF n = 0 THEN (IF D(st) THEN st ELSE F(st))
    ELSE LET a == Iterate(F, D, st, n - 1)
         IN  IF D(a) THEN a ELSE Iterate(F, D, a, n - 1)

While(F(_), D(_), st) ==
    LET a == Iterate(F, D, st, 2)
        b == Iterate(F, D, a, 4)
        c == Iterate(F, D, b, 7)
    IN  IF D(a) THEN a ELSE IF D(b) THEN b ELSE IF D(c) THEN c
        ELSE Iterate(F, D, c, 11)

(***************************************************************************)
(* Characters.  A cell or a word character is a one-character string; a   *)
(* word is a tuple of them.  Grids are lower case (load_grid applies       *)
(* tolower) and so are the words of the dictionary files tried, so tolower *)
(* and isalpha are only ever applied to the characters below.              *)
(***************************************************************************)
Letters == << "a", "b", "c", "d", "e", "f", "g", "h", "i", "j", "k", "l", "m",
              "n", "o", "p", "q", "r", "s", "t", "u", "v", "w", "x", "y", "z" >>

\* The characters in ASCII order, for strcmp.
Chars == << "#", ".", "0", "1" >> \o Letters

Ord(ch) == CHOOSE n \in 1..Len(Chars) : Chars[n] = ch

isalpha(ch) == \E n \in 1..26 : Letters[n] = ch

ch2idx(ch) == IF isalpha(ch) THEN (CHOOSE n \in 1..26 : Letters[n] = ch) - 1 ELSE 23

idx2ch(idx) == Letters[idx + 1]

Vowels == {"a", "e", "i", "o", "u", "y"}

ConsonantsNoY == {"b", "c", "d", "f", "g", "h", "j", "k", "l", "m", "n", "p",
                  "q", "r", "s", "t", "v", "w", "x", "z"}

\* strchr("bcdfghjklmnpqrstvwxyz", ch): the list includes y.
Consonants == {"b", "c", "d", "f", "g", "h", "j", "k", "l", "m", "n", "p",
               "q", "r", "s", "t", "v", "w", "x", "y", "z"}

MAX_WORDLEN == 15
XDICT_MAXLENGTH == 16

\* strcmp(a, b) < 0
RECURSIVE StrLess(_, _)
StrLess(a, b) ==
    IF b = <<>> THEN FALSE
    ELSE IF a = <<>> THEN TRUE
    ELSE IF a[1] # b[1] THEN Ord(a[1]) < Ord(b[1])
    ELSE StrLess(Tail(a), Tail(b))

\* qsort of an array of strings: equal strings are indistinguishable, so
\* the result is the one ascending arrangement.
RECURSIVE Insert(_, _)
Insert(sorted, x) ==
    IF sorted = <<>> THEN <<x>>
    ELSE IF StrLess(x, sorted[1]) THEN <<x>> \o sorted
    ELSE <<sorted[1]>> \o Insert(Tail(sorted), x)

RECURSIVE qsort(_)
qsort(a) == IF a = <<>> THEN <<>> ELSE Insert(qsort(Tail(a)), a[1])

\* grid[idx], with the C index starting at 0.
At(g, idx) == g[idx + 1]

(***************************************************************************)
(* The pattern matcher (xword-fill.c).                                     *)
(***************************************************************************)
\* A matcher that lets `0' and `1' stand for any letter.
matchesNoClass(a, b) ==
    IF a = "#" \/ b = "#" THEN 0
    ELSE IF a = "." \/ b = "." \/ a \in {"0", "1"} THEN 1
    ELSE IF a = b THEN 2 ELSE 0

\* A matcher that knows the classes on the side of the cell only.
matchesCellOnly(a, b) ==
    IF a = "#" \/ b = "#" THEN 0
    ELSE IF a = "." \/ b = "." THEN 1
    ELSE IF b \in Vowels /\ a = "0" THEN 1
    ELSE IF b \in Consonants /\ a = "1" THEN 1
    ELSE IF a = b THEN 2 ELSE 0

\* 0: no match, 1: loose match, 2: exact match
matches(a, b) ==
    IF a = "#" \/ b = "#" THEN 0
    ELSE IF a = "." \/ b = "." THEN 1
    ELSE IF a \in Vowels /\ b = "0" THEN 1
    ELSE IF b \in Vowels /\ a = "0" THEN 1
    ELSE IF a \in Consonants /\ b = "1" THEN 1
    ELSE IF b \in Consonants /\ a = "1" THEN 1
    ELSE IF a = b THEN 2 ELSE 0

is_fixed_value(ch) == ch = "#" \/ isalpha(ch)

\* A loop that never reports an exact fit.
RECURSIVE FitLoopNeverExact(_, _, _, _, _, _, _)
FitLoopNeverExact(g, first, step, word, wlen, k, exact_match) ==
    IF k >= wlen THEN 1
    ELSE IF matches(At(g, first + k * step), word[k + 1]) = 0 THEN 0
    ELSE FitLoopNeverExact(g, first, step, word, wlen, k + 1, exact_match)

\* The loop over the cells of a run: 0 as soon as a cell does not match,
\* otherwise 2 if every match was exact and 1 if not.
RECURSIVE FitLoop(_, _, _, _, _, _, _)
FitLoop(g, first, step, word, wlen, k, exact_match) ==
    IF k >= wlen THEN (IF exact_match THEN 2 ELSE 1)
    ELSE LET rc == matches(At(g, first + k * step), word[k + 1])
         IN  IF rc = 0 THEN 0
             ELSE FitLoop(g, first, step, word, wlen, k + 1, exact_match /\ rc # 1)

\* An Across fit that looks at the ends of the run and not at its letters.
entry_fits_across_unchecked(g, gw, gh, i, j, word, wlen) ==
    IF i + wlen > gw THEN 0
    ELSE IF i > 0 /\ At(g, j * gw + (i - 1)) # "#" THEN 0
    ELSE IF i + wlen < gw /\ At(g, j * gw + (i + wlen)) # "#" THEN 0
    ELSE 1

entry_fits_across(g, gw, gh, i, j, word, wlen) ==
    IF i + wlen > gw THEN 0
    ELSE IF i > 0 /\ At(g, j * gw + (i - 1)) # "#" THEN 0
    ELSE IF i + wlen < gw /\ At(g, j * gw + (i + wlen)) # "#" THEN 0
    ELSE FitLoop(g, j * gw + i, 1, word, wlen, 0, TRUE)

\* A Down fit that looks at the ends of the run and not at its letters.
entry_fits_down_unchecked(g, gw, gh, i, j, word, wlen) ==
    IF j + wlen > gh THEN 0
    ELSE IF j > 0 /\ At(g, (j - 1) * gw + i) # "#" THEN 0
    ELSE IF j + wlen < gh /\ At(g, (j + wlen) * gw + i) # "#" THEN 0
    ELSE 1

entry_fits_down(g, gw, gh, i, j, word, wlen) ==
    IF j + wlen > gh THEN 0
    ELSE IF j > 0 /\ At(g, (j - 1) * gw + i) # "#" THEN 0
    ELSE IF j + wlen < gh /\ At(g, (j + wlen) * gw + i) # "#" THEN 0
    ELSE FitLoop(g, j * gw + i, gw, word, wlen, 0, TRUE)

(***************************************************************************)
(* grid_contains_duplicates (xword-fill.c).                                *)
(***************************************************************************)
\* The end of the sequence of non-black cells that starts at position i of
\* the line of cells first, first+step, ..., of length n.
RECURSIVE RunEnd(_, _, _, _, _)
RunEnd(g, first, step, n, end) ==
    IF end < n /\ At(g, first + end * step) # "#"
    THEN RunEnd(g, first, step, n, end + 1) ELSE end

RunString(g, first, step, i, end) ==
    [k \in 1..(end - i) |-> At(g, first + (i + k - 1) * step)]

\* The entries of one line (a grid row or a grid column), left to right:
\* every maximal sequence of non-black cells holding no `.', `0' or `1'.
RECURSIVE LineEntries(_, _, _, _, _)
LineEntries(g, first, step, n, i) ==
    IF i >= n THEN <<>>
    ELSE IF At(g, first + i * step) = "#" THEN LineEntries(g, first, step, n, i + 1)
    ELSE LET end == RunEnd(g, first, step, n, i)
             str == RunString(g, first, step, i, end)
             invalid == \E k \in 1..Len(str) : str[k] \in {".", "0", "1"}
         IN  (IF invalid THEN <<>> ELSE <<str>>)
             \o LineEntries(g, first, step, n, end)

RECURSIVE AcrossEntries(_, _, _, _)
AcrossEntries(g, gw, gh, j) ==
    IF j >= gh THEN <<>>
    ELSE LineEntries(g, j * gw, 1, gw, 0) \o AcrossEntries(g, gw, gh, j + 1)

RECURSIVE DownEntries(_, _, _, _)
DownEntries(g, gw, gh, i) ==
    IF i >= gw THEN <<>>
    ELSE LineEntries(g, i, gw, gh, 0) \o DownEntries(g, gw, gh, i + 1)

grid_contains_duplicates_never(g, gw, gh) == 0

grid_contains_duplicates(g, gw, gh) ==
    LET d == qsort(AcrossEntries(g, gw, gh, 0) \o DownEntries(g, gw, gh, 0))
    IN  IF \E k \in 1..(Len(d) - 1) : d[k] = d[k + 1] THEN 1 ELSE 0

(***************************************************************************)
(* The dictionary (xdictlib.c).  dict[k] is the array words[k], of length  *)
(* len[k].                                                                 *)
(***************************************************************************)
xdict_init == [k \in 0..(XDICT_MAXLENGTH - 1) |-> <<>>]

\* Words of fewer than 3 or more than 15 characters are refused.
xdict_addword(d, word) ==
    LET k == Len(word)
    IN  IF k >= XDICT_MAXLENGTH \/ k <= 2 THEN d
        ELSE [d EXCEPT ![k] = Append(@, word)]

\* The loop that removes duplicates from a sorted array: i runs from n
\* down to 2; a word equal to its predecessor is overwritten by a copy of
\* the last word, unless it is at or beyond the new end.
RECURSIVE DedupLoop(_, _, _)
DedupLoop(a, i, n) ==
    IF i <= 1 THEN <<a, n>>
    ELSE IF a[i] = a[i - 1]
         THEN IF i < n - 1
              THEN DedupLoop([a EXCEPT ![i] = a[n]], i - 1, n - 1)
              ELSE DedupLoop(a, i - 1, n - 1)
         ELSE DedupLoop(a, i - 1, n)

SortBucket(a) ==
    IF Len(a) < 2 THEN a
    ELSE LET res == DedupLoop(qsort(a), Len(a), Len(a))
         IN  IF res[2] < Len(a) THEN qsort(SubSeq(res[1], 1, res[2]))
             ELSE res[1]

xdict_sort(d) == [k \in 0..(XDICT_MAXLENGTH - 1) |-> SortBucket(d[k])]

RECURSIVE AddWords(_, _, _)
AddWords(d, lines, i) ==
    IF i > Len(lines) THEN d
    ELSE AddWords(xdict_addword(d, lines[i]), lines, i + 1)

\* xdict_load of a file whose lines are plain words (no `/' suffix).
xdict_load(lines) == xdict_sort(AddWords(xdict_init, lines, 1))

(***************************************************************************)
(* The exact-cover matrix (section 4.A).  Objects are numbered: column     *)
(* headers 1..ncolumns (column index c has header c+1), the root header    *)
(* ncolumns+1, then the nodes in the order they were added.                *)
(***************************************************************************)
Root(m) == m.ncolumns + 1

\* The arrays of the matrix are sequences indexed from 1.
AsTuple(f) == SubSeq(f, 1, Len(f))

dance_init(cols) ==
    [ ncolumns |-> cols,
      nrows    |-> 0,
      left     |-> AsTuple([x \in 1..(cols+1) |-> IF x = 1 THEN cols + 1 ELSE x - 1]),
      right    |-> AsTuple([x \in 1..(cols+1) |-> IF x = cols + 1 THEN 1 ELSE x + 1]),
      up       |-> AsTuple([x \in 1..(cols+1) |-> x]),
      down     |-> AsTuple([x \in 1..(cols+1) |-> x]),
      column   |-> AsTuple([x \in 1..(cols+1) |-> x]),
      row      |-> AsTuple([x \in 1..(cols+1) |-> 0]),
      size     |-> AsTuple([x \in 1..cols |-> 0]) ]

\* One node at the tail of column index c, belonging to row number r; its
\* horizontal links are set by dance_addrow.
AppendNode(m, c, r) ==
    LET hdr  == c + 1
        x    == Len(m.up) + 1
        tail == m.up[hdr]
    IN  [ m EXCEPT !.up     = Append([m.up EXCEPT ![hdr] = x], tail),
                   !.down   = Append([m.down EXCEPT ![tail] = x], hdr),
                   !.left   = Append(m.left, x),
                   !.right  = Append(m.right, x),
                   !.column = Append(m.column, hdr),
                   !.row    = Append(m.row, r),
                   !.size   = [m.size EXCEPT ![hdr] = @ + 1] ]

\* The nodes of a row, in the order of the constraint array.
AppendNodes(m, constraint, r) ==
    While(LAMBDA st : [m |-> AppendNode(st.m, constraint[st.i], r), i |-> st.i + 1],
          LAMBDA st : st.i > Len(constraint),
          [m |-> m, i |-> 1]).m

\* dance_addrow(mat, idx, constraint): -1 and no change if a column index
\* is out of range; otherwise the row is appended.
AddRowFails(m, constraint) ==
    \E i \in 1..Len(constraint) : constraint[i] < 0 \/ constraint[i] >= m.ncolumns

dance_addrow(m, constraint) ==
    IF AddRowFails(m, constraint) THEN m
    ELSE
    LET n    == Len(constraint)
        base == Len(m.up)
        m1   == AppendNodes(m, constraint, m.nrows + 1)
    IN  [ m1 EXCEPT
            !.nrows = @ + 1,
            !.left  = [x \in 1..(base+n) |->
                         IF x <= base THEN m.left[x]
                         ELSE IF x = base + 1 THEN base + n ELSE x - 1],
            !.right = [x \in 1..(base+n) |->
                         IF x <= base THEN m.right[x]
                         ELSE IF x = base + n THEN base + 1 ELSE x + 1] ]

\* Unlink node j from its column's vertical list.
UnlinkNode(m, j) ==
    [ m EXCEPT !.down = [m.down EXCEPT ![m.up[j]] = m.down[j]],
               !.up   = [m.up EXCEPT ![m.down[j]] = m.up[j]],
               !.size = [m.size EXCEPT ![m.column[j]] = @ - 1] ]

\* Put node j back between the neighbours it remembers.
RelinkNode(m, j) ==
    [ m EXCEPT !.down = [m.down EXCEPT ![m.up[j]] = j],
               !.up   = [m.up EXCEPT ![m.down[j]] = j],
               !.size = [m.size EXCEPT ![m.column[j]] = @ + 1] ]

\* Unlink every other node of the row of node i, going right.
CoverRow(m, i) ==
    While(LAMBDA st : [m |-> UnlinkNode(st.m, st.j), j |-> st.m.right[st.j]],
          LAMBDA st : st.j = i,
          [m |-> m, j |-> m.right[i]]).m

\* Do so for every row of column c, going down.
CoverRows(m, c) ==
    While(LAMBDA st : [m |-> CoverRow(st.m, st.i), i |-> st.m.down[st.i]],
          LAMBDA st : st.i = c,
          [m |-> m, i |-> m.down[c]]).m

CoverNoRows(m, c) ==
    [ m EXCEPT !.right = [m.right EXCEPT ![m.left[c]] = m.right[c]],
               !.left  = [m.left EXCEPT ![m.right[c]] = m.left[c]] ]

\* Step 4: unlink c from the header chain and every row of c from the
\* other columns.
Cover(m, c) ==
    CoverRows([ m EXCEPT !.right = [m.right EXCEPT ![m.left[c]] = m.right[c]],
                         !.left  = [m.left EXCEPT ![m.right[c]] = m.left[c]] ],
              c)

\* Relink every other node of the row of node i, going left.
UncoverRow(m, i) ==
    While(LAMBDA st : [m |-> RelinkNode(st.m, st.j), j |-> st.m.left[st.j]],
          LAMBDA st : st.j = i,
          [m |-> m, j |-> m.left[i]]).m

\* Do so for every row of column c, going up.
UncoverRows(m, c) ==
    While(LAMBDA st : [m |-> UncoverRow(st.m, st.i), i |-> st.m.up[st.i]],
          LAMBDA st : st.i = c,
          [m |-> m, i |-> m.up[c]]).m

UncoverNoCounts(m, c) ==
    LET m1 == UncoverRows(m, c)
    IN  [ m1 EXCEPT !.right = [m1.right EXCEPT ![m1.left[c]] = c],
                    !.left  = [m1.left EXCEPT ![m1.right[c]] = c],
                    !.size  = m.size ]

\* Step 6: the reverse of Cover.
Uncover(m, c) ==
    LET m1 == UncoverRows(m, c)
    IN  [ m1 EXCEPT !.right = [m1.right EXCEPT ![m1.left[c]] = c],
                    !.left  = [m1.left EXCEPT ![m1.right[c]] = c] ]

\* Cover the columns of the other nodes of the row of node r, going right.
CoverOthers(m, r) ==
    While(LAMBDA st : [m |-> Cover(st.m, st.m.column[st.j]), j |-> st.m.right[st.j]],
          LAMBDA st : st.j = r,
          [m |-> m, j |-> m.right[r]]).m

\* Uncover them in reverse order, going left.
UncoverOthers(m, r) ==
    While(LAMBDA st : [m |-> Uncover(st.m, st.m.column[st.j]), j |-> st.m.left[st.j]],
          LAMBDA st : st.j = r,
          [m |-> m, j |-> m.left[r]]).m

\* A choice without the S-heuristic: the first column of the header chain.
ChooseFirstColumn(m) == m.right[Root(m)]

\* Step 2, the S-heuristic: the uncovered column of minimum count, the
\* first such column along the header chain.
ChooseColumn(m) ==
    While(LAMBDA st : [j    |-> m.right[st.j],
                       best |-> IF st.best = 0 \/ m.size[st.j] < m.size[st.best]
                                THEN st.j ELSE st.best],
          LAMBDA st : st.j = Root(m),
          [j |-> m.right[Root(m)], best |-> 0]).best

InfeasibleAtMostOne(m, c) == m.size[c] <= 1

\* Step 3: a column with no row left makes the branch infeasible.
Infeasible(m, c) == m.size[c] = 0

\* The rows of the nodes on the solution stack.
StackRows(m, sol) == [k \in 1..Len(sol) |-> m.row[sol[k]]]

\* The column indexes of the nodes of the row of node o, found by walking
\* o->right around the row.
RowColumns(m, o) ==
    While(LAMBDA st : [j |-> m.right[st.j], cols |-> Append(st.cols, m.column[st.j] - 1)],
          LAMBDA st : st.j = o,
          [j |-> m.right[o], cols |-> <<m.column[o] - 1>>]).cols

(***************************************************************************)
(* The reduction encoder (xword-fill.c).                                   *)
(***************************************************************************)
\* The number of cells i' < i of the grid that are not fixed.
RECURSIVE UnknownBefore(_, _)
UnknownBefore(g, i) ==
    IF i = 0 THEN 0
    ELSE UnknownBefore(g, i - 1) + (IF is_fixed_value(At(g, i - 1)) THEN 0 ELSE 1)

NUMBER_OF_SLICES(g, naive) ==
    IF naive = 1 THEN Len(g) ELSE UnknownBefore(g, Len(g))

\* The slice'th unknown cell of the grid.
RECURSIVE SliceScan(_, _, _, _)
SliceScan(g, slice, i, unknown_cells) ==
    IF i >= Len(g) THEN 0
    ELSE IF is_fixed_value(At(g, i)) THEN SliceScan(g, slice, i + 1, unknown_cells)
    ELSE IF unknown_cells = slice THEN i
    ELSE SliceScan(g, slice, i + 1, unknown_cells + 1)

\* A decoder that takes the slice number for the cell number.
SLICE_TO_CELL_identity(slice, g, naive) == slice

SLICE_TO_CELL(slice, g, naive) ==
    IF naive = 1 THEN slice ELSE SliceScan(g, slice, 0, 0)

\* An encoder that takes the cell number for the slice number.
CELL_TO_SLICE_identity(cell, g, naive) == cell

CELL_TO_SLICE(cell, g, naive) ==
    IF naive = 1 THEN cell ELSE UnknownBefore(g, cell)

\* An Across placement that takes the whole slice, as a black cell does.
AcrossSliceWhole(slice, relevant_index) == [m \in 1..54 |-> slice + (m - 1)]

\* The 27 columns of one cell of an Across placement of letter index
\* relevant_index: (1 0) in that letter's pair, (0 1) in the 25 others,
\* (1 0) in the "Across or Down" pair.
AcrossSlice(slice, relevant_index) ==
    [m \in 1..27 |->
        IF m <= 26 THEN slice + 2 * (m - 1) + (IF relevant_index # m - 1 THEN 1 ELSE 0)
        ELSE slice + 2 * 26 + 0]

\* A Down placement that marks the Across half of the orientation pair.
DownSliceAcrossPair(slice, relevant_index) ==
    [m \in 1..27 |->
        IF m <= 26 THEN slice + 2 * (m - 1) + (IF relevant_index = m - 1 THEN 1 ELSE 0)
        ELSE slice + 2 * 26 + 0]

\* A Down placement encoded like an Across one.
DownSliceAsAcross(slice, relevant_index) ==
    [m \in 1..27 |->
        IF m <= 26 THEN slice + 2 * (m - 1) + (IF relevant_index # m - 1 THEN 1 ELSE 0)
        ELSE slice + 2 * 26 + 0]

\* The mirror image for a Down placement.
DownSlice(slice, relevant_index) ==
    [m \in 1..27 |->
        IF m <= 26 THEN slice + 2 * (m - 1) + (IF relevant_index = m - 1 THEN 1 ELSE 0)
        ELSE slice + 2 * 26 + 1]

RECURSIVE AcrossConstraint(_, _, _, _, _, _, _)
AcrossConstraint(g, gw, naive, i, j, word, k) ==
    IF k >= Len(word) THEN <<>>
    ELSE LET cell == j * gw + (i + k)
         IN  (IF naive = 1 \/ ~is_fixed_value(At(g, cell))
              THEN AcrossSlice(27 * 2 * CELL_TO_SLICE(cell, g, naive), ch2idx(word[k + 1]))
              ELSE <<>>)
             \o AcrossConstraint(g, gw, naive, i, j, word, k + 1)

RECURSIVE DownConstraint(_, _, _, _, _, _, _)
DownConstraint(g, gw, naive, i, j, word, k) ==
    IF k >= Len(word) THEN <<>>
    ELSE LET cell == (j + k) * gw + i
         IN  (IF naive = 1 \/ ~is_fixed_value(At(g, cell))
              THEN DownSlice(27 * 2 * CELL_TO_SLICE(cell, g, naive), ch2idx(word[k + 1]))
              ELSE <<>>)
             \o DownConstraint(g, gw, naive, i, j, word, k + 1)

add_row_across(m, g, gw, naive, i, j, word) ==
    dance_addrow(m, AcrossConstraint(g, gw, naive, i, j, word, 0))

add_row_down(m, g, gw, naive, i, j, word) ==
    dance_addrow(m, DownConstraint(g, gw, naive, i, j, word, 0))

\* Both halves of all 27 pairs of the slice of a black cell.
add_row_black(m, cell) ==
    dance_addrow(m, [n \in 1..54 |-> 27 * 2 * cell + (n - 1)])

\* add_rows_for_word: every cell in row-major order, Across before Down;
\* a row is added for a loose fit only.
RECURSIVE AddRowsLoop(_, _, _, _, _, _, _)
AddRowsLoop(m, g, gw, gh, naive, word, pos) ==
    IF pos >= gw * gh THEN m
    ELSE LET i  == pos % gw
             j  == pos \div gw
             m1 == IF entry_fits_across(g, gw, gh, i, j, word, Len(word)) = 1
                   THEN add_row_across(m, g, gw, naive, i, j, word) ELSE m
             m2 == IF entry_fits_down(g, gw, gh, i, j, word, Len(word)) = 1
                   THEN add_row_down(m1, g, gw, naive, i, j, word) ELSE m1
         IN  AddRowsLoop(m2, g, gw, gh, naive, word, pos + 1)

add_rows_for_word(m, g, gw, gh, naive, word) ==
    AddRowsLoop(m, g, gw, gh, naive, word, 0)

\* The letters from cell `first' on, along the line, up to the first black
\* cell or the end of the line (n cells are left).
RECURSIVE ForcedLetters(_, _, _, _, _)
ForcedLetters(g, first, step, n, k) ==
    IF k >= n \/ At(g, first + k * step) = "#" THEN <<>>
    ELSE <<k>> \o ForcedLetters(g, first, step, n, k + 1)

RECURSIVE ForcedAcrossConstraint(_, _, _, _)
ForcedAcrossConstraint(g, first, ks, n) ==
    IF n > Len(ks) THEN <<>>
    ELSE LET cell == first + ks[n]
         IN  AcrossSlice(27 * 2 * cell, ch2idx(At(g, cell)))
             \o ForcedAcrossConstraint(g, first, ks, n + 1)

RECURSIVE ForcedDownConstraint(_, _, _, _, _)
ForcedDownConstraint(g, gw, first, ks, n) ==
    IF n > Len(ks) THEN <<>>
    ELSE LET cell == first + ks[n] * gw
         IN  DownSlice(27 * 2 * cell, ch2idx(At(g, cell)))
             \o ForcedDownConstraint(g, gw, first, ks, n + 1)

add_row_forced_across(m, g, gw, gh, i, j) ==
    dance_addrow(m, ForcedAcrossConstraint(g, j * gw + i,
                        ForcedLetters(g, j * gw + i, 1, gw - i, 0), 1))

\* A forced Down row built as an Across row.
add_row_forced_down_as_across(m, g, gw, gh, i, j) ==
    add_row_forced_across(m, g, gw, gh, i, j)

add_row_forced_down(m, g, gw, gh, i, j) ==
    dance_addrow(m, ForcedDownConstraint(g, gw, j * gw + i,
                        ForcedLetters(g, j * gw + i, gw, gh - j, 0), 1))

\* The scan of one line for forced placements: the starts of the maximal
\* sequences of letters that end at a black cell or at the end of the
\* line; a sequence holding a cell that is not a letter is skipped whole.
RECURSIVE SkipToBlack(_, _, _, _, _)
SkipToBlack(g, first, step, n, i) ==
    IF i < n /\ At(g, first + i * step) # "#"
    THEN SkipToBlack(g, first, step, n, i + 1) ELSE i

RECURSIVE ForcedStarts(_, _, _, _, _, _)
ForcedStarts(g, first, step, n, i, word_starts_here) ==
    IF i > n THEN <<>>
    ELSE IF (i = n \/ At(g, first + i * step) = "#") /\ word_starts_here < i
         THEN <<word_starts_here>> \o ForcedStarts(g, first, step, n, i + 1, i + 1)
    ELSE IF i = n THEN <<>>
    ELSE IF ~isalpha(At(g, first + i * step))
         THEN LET i2 == SkipToBlack(g, first, step, n, i)
              IN  ForcedStarts(g, first, step, n, i2 + 1, i2 + 1)
    ELSE ForcedStarts(g, first, step, n, i + 1, word_starts_here)

RECURSIVE AddBlackRows(_, _, _)
AddBlackRows(m, g, i) ==
    IF i >= Len(g) THEN m
    ELSE AddBlackRows(IF At(g, i) = "#" THEN add_row_black(m, i) ELSE m, g, i + 1)

RECURSIVE AddForcedAcrossLine(_, _, _, _, _, _, _)
AddForcedAcrossLine(m, g, gw, gh, j, starts, n) ==
    IF n > Len(starts) THEN m
    ELSE AddForcedAcrossLine(add_row_forced_across(m, g, gw, gh, starts[n], j),
                             g, gw, gh, j, starts, n + 1)

RECURSIVE AddForcedAcross(_, _, _, _, _)
AddForcedAcross(m, g, gw, gh, j) ==
    IF j >= gh THEN m
    ELSE AddForcedAcross(
             AddForcedAcrossLine(m, g, gw, gh, j,
                                 ForcedStarts(g, j * gw, 1, gw, 0, 0), 1),
             g, gw, gh, j + 1)

RECURSIVE AddForcedDownLine(_, _, _, _, _, _, _)
AddForcedDownLine(m, g, gw, gh, i, starts, n) ==
    IF n > Len(starts) THEN m
    ELSE AddForcedDownLine(add_row_forced_down(m, g, gw, gh, i, starts[n]),
                           g, gw, gh, i, starts, n + 1)

RECURSIVE AddForcedDown(_, _, _, _, _)
AddForcedDown(m, g, gw, gh, i) ==
    IF i >= gw THEN m
    ELSE AddForcedDown(
             AddForcedDownLine(m, g, gw, gh, i,
                               ForcedStarts(g, i, gw, gh, 0, 0), 1),
             g, gw, gh, i + 1)

\* Naive mode without the rows of the forced placements.
AddNaiveRowsBlackOnly(m, g, gw, gh) == AddBlackRows(m, g, 0)

\* The rows xword_solve adds in naive mode after the dictionary has been
\* streamed: black cells, forced Across, forced Down.
AddNaiveRows(m, g, gw, gh) ==
    AddForcedDown(AddForcedAcross(AddBlackRows(m, g, 0), g, gw, gh, 0), g, gw, gh, 0)

(***************************************************************************)
(* strip_dict (xword-fill.c).                                              *)
(***************************************************************************)
\* The placements strip_dict tries for a word of length k, and what they
\* return.
StripFits(g, gw, gh, word, k) ==
    {entry_fits_across(g, gw, gh, i, j, word, k) :
        i \in 0..(gw - k), j \in 0..(gh - 1)}
    \cup {entry_fits_down(g, gw, gh, i, j, word, k) :
        i \in 0..(gw - 1), j \in 0..(gh - k)}

\* Whether the word is removed: with duplicate rejection, on the first
\* exact fit or when nothing fits; without, when nothing fits.
StripRemoves(g, gw, gh, reject, word, k) ==
    LET fits == StripFits(g, gw, gh, word, k)
    IN  IF reject = 1 THEN 2 \in fits \/ 1 \notin fits
        ELSE 1 \notin fits /\ 2 \notin fits

\* The loop over one array: a removed word is overwritten by the last
\* word of the array, and the loop goes on with the next index.
RECURSIVE StripBucket(_, _, _, _, _, _, _)
StripBucket(a, widx, g, gw, gh, reject, k) ==
    IF widx > Len(a) THEN a
    ELSE IF StripRemoves(g, gw, gh, reject, a[widx], k)
         THEN StripBucket(SubSeq([a EXCEPT ![widx] = a[Len(a)]], 1, Len(a) - 1),
                          widx + 1, g, gw, gh, reject, k)
         ELSE StripBucket(a, widx + 1, g, gw, gh, reject, k)

strip_dict(g, gw, gh, reject, d) ==
    [k \in 0..(XDICT_MAXLENGTH - 1) |-> StripBucket(d[k], 1, g, gw, gh, reject, k)]

(***************************************************************************)
(* The solution decoder (print_crossword_result).                          *)
(***************************************************************************)
\* The letters one Across row writes: for each node in a column holding
\* the left half of a letter pair, the letter goes into the node's cell.
WriteLetter(g0, g, naive, colx) ==
    LET cell == SLICE_TO_CELL(colx \div 54, g0, naive)
        letter_idx == (colx % 54) \div 2
    IN  IF colx % 2 = 0 /\ letter_idx # 26
        THEN [g EXCEPT ![cell + 1] = idx2ch(letter_idx)] ELSE g

WriteLetters(g0, g, naive, cols) ==
    While(LAMBDA st : [g |-> WriteLetter(g0, st.g, naive, cols[st.n]), n |-> st.n + 1],
          LAMBDA st : st.n > Len(cols),
          [g |-> g, n |-> 1]).g

RowIsAcrossNever(cols) == FALSE

RowIsAcross(cols) == \E n \in 1..Len(cols) : cols[n] % 54 = 52
RowIsDown(cols) == \E n \in 1..Len(cols) : cols[n] % 54 = 53

\* The loop over the rows of the solution: rows that are Down, or both
\* Across and Down (black cells), are skipped.
RECURSIVE DecodeLoop(_, _, _, _, _, _)
DecodeLoop(m, sol, g0, g, naive, k) ==
    IF k > Len(sol) THEN g
    ELSE LET cols == RowColumns(m, sol[k])
         IN  DecodeLoop(m, sol, g0,
                 IF RowIsAcross(cols) /\ ~RowIsDown(cols)
                 THEN WriteLetters(g0, g, naive, cols) ELSE g,
                 naive, k + 1)

Decode(m, sol, g0, naive) == DecodeLoop(m, sol, g0, g0, naive, 1)

(***************************************************************************)
(* dance_solve, one action per step of the recursion.                      *)
(*   pc = "search"  a call of the search at level Len(solution) begins     *)
(*   pc = "return"  the call at level Len(solution) returns `result`       *)
(***************************************************************************)
engineVars == <<mat, solution, colstack, counts, result>>
progVars == <<grid, w, h, NumSolutions, RejectDuplicateWords, UseNaiveMethod,
              PrintEveryNthSolution, dictfile, pat, dict, cursor>>
printVars == <<printed_so_far, skipped_so_far, out>>

\* Step 3: the chosen column is empty; return 0 without touching anything.
SolveInfeasible ==
    /\ pc = "search"
    /\ mat.right[Root(mat)] # Root(mat)
    /\ Infeasible(mat, ChooseColumn(mat))
    /\ pc' = "return"
    /\ result' = 0
    /\ UNCHANGED <<mat, solution, colstack, counts, cblog, premat, ns>>
    /\ UNCHANGED progVars /\ UNCHANGED printVars

\* Steps 4 and 5: cover the chosen column, push its first row, cover the
\* columns of the row's other nodes, recurse.
SolveDescend ==
    /\ pc = "search"
    /\ mat.right[Root(mat)] # Root(mat)
    /\ LET c  == ChooseColumn(mat)
           m1 == Cover(mat, c)
           r  == m1.down[c]
       IN  /\ ~Infeasible(mat, c)
           /\ mat' = CoverOthers(m1, r)
           /\ solution' = Append(solution, r)
           /\ colstack' = Append(colstack, c)
           /\ counts' = Append(counts, 0)
    /\ pc' = "search"
    /\ UNCHANGED <<result, cblog, premat, ns>>
    /\ UNCHANGED progVars /\ UNCHANGED printVars

\* Step 5, after the recursive call returned a non-negative value: pop the
\* row, uncover its columns, and go on with the next row of the column.
SolveNextRow ==
    /\ pc = "return"
    /\ Len(solution) > 0
    /\ result >= 0
    /\ LET k  == Len(solution)
           r  == solution[k]
           c  == colstack[k]
           m1 == UncoverOthers(mat, r)
           r2 == m1.down[r]
       IN  /\ r2 # c
           /\ mat' = CoverOthers(m1, r2)
           /\ solution' = [solution EXCEPT ![k] = r2]
           /\ counts' = [counts EXCEPT ![k] = @ + result]
    /\ pc' = "search"
    /\ UNCHANGED <<colstack, result, cblog, premat, ns>>
    /\ UNCHANGED progVars /\ UNCHANGED printVars

\* Steps 5 and 6, after the last row of the column: pop the row, uncover
\* its columns, uncover the column, return the running total.
SolveBacktrack ==
    /\ pc = "return"
    /\ Len(solution) > 0
    /\ result >= 0
    /\ LET k  == Len(solution)
           r  == solution[k]
           c  == colstack[k]
           m1 == UncoverOthers(mat, r)
       IN  /\ m1.down[r] = c
           /\ mat' = Uncover(m1, c)
           /\ result' = counts[k] + result
           /\ solution' = SubSeq(solution, 1, k - 1)
           /\ colstack' = SubSeq(colstack, 1, k - 1)
           /\ counts' = SubSeq(counts, 1, k - 1)
    /\ pc' = "return"
    /\ UNCHANGED <<cblog, premat, ns>>
    /\ UNCHANGED progVars /\ UNCHANGED printVars

\* A negative value unwinds the recursion: each level uncovers what it
\* covered and hands the same value up.
SolveBail ==
    /\ pc = "return"
    /\ Len(solution) > 0
    /\ result < 0
    /\ LET k  == Len(solution)
           r  == solution[k]
           c  == colstack[k]
           m1 == UncoverOthers(mat, r)
       IN  /\ mat' = Uncover(m1, c)
           /\ solution' = SubSeq(solution, 1, k - 1)
           /\ colstack' = SubSeq(colstack, 1, k - 1)
           /\ counts' = SubSeq(counts, 1, k - 1)
    /\ pc' = "return"
    /\ UNCHANGED <<result, cblog, premat, ns>>
    /\ UNCHANGED progVars /\ UNCHANGED printVars

(***************************************************************************)
(* SpecDance: the engine on its own.                                       *)
(***************************************************************************)
\* The rows a caller may add: the non-empty sets of columns, each listed in
\* ascending order.
RECURSIVE AscendingSeq(_)
AscendingSeq(S) ==
    IF S = {} THEN <<>>
    ELSE LET x == CHOOSE y \in S : \A z \in S : y <= z
         IN  <<x>> \o AscendingSeq(S \ {x})

DanceConstraints == {AscendingSeq(S) : S \in (SUBSET (0..(DanceCols-1))) \ {{}}}

\* What the callback of SpecDance may return.
SolveReturns == {-1, 0, 1}

DanceInit ==
    /\ pc = "build"
    /\ grid = <<>> /\ w = 0 /\ h = 0
    /\ NumSolutions = -1 /\ RejectDuplicateWords = 1
    /\ UseNaiveMethod = 0 /\ PrintEveryNthSolution = 1
    /\ dictfile = <<>> /\ pat = <<>> /\ dict = <<>> /\ cursor = <<0, 0>>
    /\ mat = dance_init(DanceCols)
    /\ premat = dance_init(DanceCols)
    /\ solution = <<>> /\ colstack = <<>> /\ counts = <<>>
    /\ result = 0
    /\ cblog = <<>>
    /\ printed_so_far = 0 /\ skipped_so_far = 0
    /\ out = <<>>
    /\ ns = 0

DanceAddRow ==
    /\ pc = "build"
    /\ mat.nrows < DanceRows
    /\ \E constraint \in DanceConstraints : mat' = dance_addrow(mat, constraint)
    /\ UNCHANGED <<pc, premat, solution, colstack, counts, result, cblog, ns>>
    /\ UNCHANGED progVars /\ UNCHANGED printVars

DanceSolve ==
    /\ pc = "build"
    /\ pc' = "search"
    /\ premat' = mat
    /\ UNCHANGED <<mat, solution, colstack, counts, result, cblog, ns>>
    /\ UNCHANGED progVars /\ UNCHANGED printVars

\* Step 1: the header chain is empty; the stack is handed to the callback.
DanceCallback ==
    /\ pc = "search"
    /\ mat.right[Root(mat)] = Root(mat)
    /\ \E ret \in SolveReturns :
          /\ result' = ret
          /\ cblog' = Append(cblog, [rows |-> StackRows(mat, solution), ret |-> ret])
    /\ pc' = "return"
    /\ UNCHANGED <<mat, solution, colstack, counts, premat, ns>>
    /\ UNCHANGED progVars /\ UNCHANGED printVars

\* dance_solve returns to its caller.
SolveReturn ==
    /\ pc = "return"
    /\ Len(solution) = 0
    /\ ns' = result
    /\ pc' = "done"
    /\ UNCHANGED <<mat, solution, colstack, counts, result, cblog, premat>>
    /\ UNCHANGED progVars /\ UNCHANGED printVars

DanceNext ==
    \/ DanceAddRow
    \/ DanceSolve
    \/ DanceCallback
    \/ SolveInfeasible
    \/ SolveDescend
    \/ SolveNextRow
    \/ SolveBacktrack
    \/ SolveBail
    \/ SolveReturn

SpecDance == DanceInit /\ [][DanceNext]_vars

(***************************************************************************)
(* Spec: the xword-fill program.                                           *)
(***************************************************************************)
\* The grids tried.
\* Section 8, scenario 1.
GridScenario1 ==
    [w |-> 3, h |-> 3, cells |-> << ".", "a", "s",
                                    ".", "r", ".",
                                    "e", "t", "a" >>]
\* The same with a consonant and a vowel wildcard.
GridWildcards ==
    [w |-> 3, h |-> 3, cells |-> << "1", "a", "s",
                                    ".", "r", "0",
                                    "e", "t", "a" >>]
\* Two Across runs that may or may not get the same word.
GridTwoRuns ==
    [w |-> 3, h |-> 3, cells |-> << ".", "a", "t",
                                    "e", "r", "e",
                                    ".", "a", "t" >>]
\* Scenario 1 with a black column.
GridBlackColumn ==
    [w |-> 4, h |-> 3, cells |-> << ".", "a", "s", "#",
                                    ".", "r", ".", "#",
                                    "e", "t", "a", "#" >>]
\* Nothing to fill, and the same word twice.
GridFixed ==
    [w |-> 3, h |-> 3, cells |-> << "c", "a", "t",
                                    "e", "r", "e",
                                    "c", "a", "t" >>]
\* Section 8, scenarios 2 and 3: grids of one row.
GridRowVowel == [w |-> 3, h |-> 1, cells |-> << "b", "0", "g" >>]
GridRowConsonant == [w |-> 3, h |-> 1, cells |-> << "d", "o", "1" >>]
\* A row with an open cell right after the letters.
GridRowFour == [w |-> 4, h |-> 1, cells |-> << "b", "0", "g", "." >>]
\* Section 8, scenario 5: two runs of one cell.
GridScenario5 == [w |-> 3, h |-> 1, cells |-> << ".", "#", "." >>]

Grids ==
    { GridScenario1, GridWildcards, GridTwoRuns, GridBlackColumn, GridFixed,
      GridRowVowel, GridRowConsonant, GridRowFour, GridScenario5 }

\* The dictionary files tried, as the sequence of their lines.
\* Section 8, scenario 1.
WordsScenario1 ==
    << <<"s","e","a">>, <<"a","r","t">>, <<"e","t","a">>, <<"h","a","s">>,
       <<"h","i","e">>, <<"h","i","t">>, <<"i","r","e">> >>
\* Several ways to fill scenario 1, one with a consonant at (1,2).
WordsManyFillings ==
    << <<"h","a","s">>, <<"h","i","e">>, <<"i","r","e">>, <<"s","e","a">>,
       <<"w","a","s">>, <<"w","o","e">>, <<"o","r","e">>, <<"y","a","s">>,
       <<"y","o","e">>, <<"e","t","a">>, <<"a","r","t">>, <<"i","r","k">>,
       <<"s","k","a">> >>
\* Words for the grid of two runs, and scenario 1 without its `hie'.
WordsTwoRuns ==
    << <<"c","a","t">>, <<"b","a","t">>, <<"b","e","c">>, <<"c","e","b">>,
       <<"c","e","c">>, <<"h","a","s">>, <<"i","r","e">>, <<"s","e","a">>,
       <<"h","i","t">> >>
\* A file that lists a word twice.
WordsListedTwice ==
    << <<"a","r","t">>, <<"h","a","s">>, <<"h","i","e">>, <<"i","r","e">>,
       <<"s","e","a">>, <<"s","e","a">>, <<"t","e","a">> >>
\* Section 8, scenarios 2 and 3.
WordsOneRow ==
    << <<"b","a","g">>, <<"b","e","g">>, <<"b","i","g">>, <<"b","o","g">>,
       <<"b","u","g">>, <<"b","y","g">>, <<"b","f","g">>, <<"d","o","b">>,
       <<"d","o","c">>, <<"d","o","g">>, <<"d","o","e">> >>
\* Words for the grid of two runs whose first filling has a word twice.
WordsFirstTwice ==
    << <<"p","a","t">>, <<"r","a","t">>, <<"p","e","p">>, <<"p","e","r">>,
       <<"r","e","p">> >>

DictFiles ==
    { WordsScenario1, WordsManyFillings, WordsTwoRuns, WordsListedTwice,
      WordsOneRow, WordsFirstTwice }

\* The runs tried: each grid with the files written for it, and files
\* none or few of whose words fit it.
Runs ==
    { <<GridScenario1, WordsScenario1>>, <<GridScenario1, WordsManyFillings>>,
      <<GridScenario1, WordsTwoRuns>>, <<GridScenario1, WordsListedTwice>>,
      <<GridWildcards, WordsManyFillings>>,
      <<GridTwoRuns, WordsTwoRuns>>, <<GridTwoRuns, WordsFirstTwice>>,
      <<GridBlackColumn, WordsScenario1>>, <<GridBlackColumn, WordsListedTwice>>,
      <<GridFixed, WordsTwoRuns>>, <<GridFixed, WordsFirstTwice>>,
      <<GridRowVowel, WordsOneRow>>, <<GridRowVowel, WordsFirstTwice>>,
      <<GridRowConsonant, WordsOneRow>>,
      <<GridRowFour, WordsOneRow>>,
      <<GridScenario5, WordsScenario1>> }

MaxEveryNth == 2        \* the largest --every tried

Init ==
    /\ pc = "start"
    /\ \E run \in Runs :
          /\ grid = run[1].cells /\ w = run[1].w /\ h = run[1].h
          /\ dictfile = run[2]
    /\ pat = <<>>
    /\ NumSolutions \in {-1} \cup (1..MaxNumSolutions)
    /\ RejectDuplicateWords \in {0, 1}
    /\ UseNaiveMethod \in {0, 1}
    /\ PrintEveryNthSolution \in 1..MaxEveryNth
    /\ dict = xdict_init
    /\ cursor = <<0, 1>>
    /\ mat = dance_init(0)
    /\ premat = dance_init(0)
    /\ solution = <<>> /\ colstack = <<>> /\ counts = <<>>
    /\ result = 0
    /\ cblog = <<>>
    /\ printed_so_far = 0 /\ skipped_so_far = 0
    /\ out = <<>>
    /\ ns = 0

flagVars == <<grid, w, h, NumSolutions, RejectDuplicateWords, UseNaiveMethod,
              PrintEveryNthSolution, dictfile, pat>>
solveVars == <<premat, solution, colstack, counts, result, cblog, ns>>

\* A main that does not look at the input grid.
CheckInputGridSkipped ==
    /\ pc = "start"
    /\ pc' = "load"
    /\ UNCHANGED <<dict, cursor, mat>>
    /\ UNCHANGED flagVars /\ UNCHANGED solveVars /\ UNCHANGED printVars

\* main: the input grid must not hold the same entry twice.
CheckInputGrid ==
    /\ pc = "start"
    /\ pc' = IF RejectDuplicateWords = 1 /\ grid_contains_duplicates(grid, w, h) # 0
             THEN "error" ELSE "load"
    /\ UNCHANGED <<dict, cursor, mat>>
    /\ UNCHANGED flagVars /\ UNCHANGED solveVars /\ UNCHANGED printVars

\* A load that may leave the words in file order.
XdictLoadEitherOrder ==
    /\ pc = "load"
    /\ \E d \in {xdict_load(dictfile), AddWords(xdict_init, dictfile, 1)} : dict' = d
    /\ pc' = "strip"
    /\ UNCHANGED <<cursor, mat>>
    /\ UNCHANGED flagVars /\ UNCHANGED solveVars /\ UNCHANGED printVars

XdictLoad ==
    /\ pc = "load"
    /\ dict' = xdict_load(dictfile)
    /\ pc' = "strip"
    /\ UNCHANGED <<cursor, mat>>
    /\ UNCHANGED flagVars /\ UNCHANGED solveVars /\ UNCHANGED printVars

StripDict ==
    /\ pc = "strip"
    /\ dict' = strip_dict(grid, w, h, RejectDuplicateWords, dict)
    /\ pc' = "init"
    /\ UNCHANGED <<cursor, mat>>
    /\ UNCHANGED flagVars /\ UNCHANGED solveVars /\ UNCHANGED printVars

\* The first word at or after position i of array k, in the order of
\* xdict_find(dict, "*"): arrays by length, each from its first word.
RECURSIVE NextWord(_, _, _)
NextWord(d, k, i) ==
    IF k >= XDICT_MAXLENGTH THEN <<XDICT_MAXLENGTH, 1>>
    ELSE IF i <= Len(d[k]) THEN <<k, i>>
    ELSE NextWord(d, k + 1, 1)

\* xword_solve: the matrix gets 54 columns per slice.
XwordSolveInit ==
    /\ pc = "init"
    /\ mat' = dance_init(27 * 2 * NUMBER_OF_SLICES(grid, UseNaiveMethod))
    /\ cursor' = NextWord(dict, 0, 1)
    /\ pc' = "build"
    /\ UNCHANGED dict
    /\ UNCHANGED flagVars /\ UNCHANGED solveVars /\ UNCHANGED printVars

\* xdict_find calls add_rows_for_word on the next word.
AddRowsForWord ==
    /\ pc = "build"
    /\ cursor[1] < XDICT_MAXLENGTH
    /\ mat' = add_rows_for_word(mat, grid, w, h, UseNaiveMethod,
                                dict[cursor[1]][cursor[2]])
    /\ cursor' = NextWord(dict, cursor[1], cursor[2] + 1)
    /\ UNCHANGED <<pc, dict>>
    /\ UNCHANGED flagVars /\ UNCHANGED solveVars /\ UNCHANGED printVars

\* The number of cells k each call of add_row_forced_across and of
\* add_row_forced_down walks over: one call per forced placement.
ForcedLengths(g, gw, gh) ==
    UNION {LET starts == ForcedStarts(g, j * gw, 1, gw, 0, 0)
           IN  {Len(ForcedLetters(g, j * gw + starts[n], 1, gw - starts[n], 0)) :
                   n \in 1..Len(starts)} : j \in 0..(gh - 1)}
    \cup
    UNION {LET starts == ForcedStarts(g, i, gw, gh, 0, 0)
           IN  {Len(ForcedLetters(g, starts[n] * gw + i, gw, gh - starts[n], 0)) :
                   n \in 1..Len(starts)} : i \in 0..(gw - 1)}

\* assert(i - word_starts_here <= MAX_WORDLEN) in xword_solve, then
\* assert(k < MAX_WORDLEN) in add_row_forced_across and add_row_forced_down.
ForcedAssertFails(g, gw, gh) ==
    \E k \in ForcedLengths(g, gw, gh) : ~(k <= MAX_WORDLEN) \/ ~(k < MAX_WORDLEN)

\* xdict_find is done: the rows of naive mode are added and dance_solve
\* is called, unless an assertion stops the program while the forced rows
\* are added.
XwordSolveStart ==
    /\ pc = "build"
    /\ cursor[1] >= XDICT_MAXLENGTH
    /\ IF UseNaiveMethod = 1 /\ ForcedAssertFails(grid, w, h)
       THEN pc' = "abort" /\ UNCHANGED <<mat, premat>>
       ELSE LET m1 == IF UseNaiveMethod = 1 THEN AddNaiveRows(mat, grid, w, h) ELSE mat
            IN  mat' = m1 /\ premat' = m1 /\ pc' = "search"
    /\ UNCHANGED <<dict, cursor, solution, colstack, counts, result, cblog, ns>>
    /\ UNCHANGED flagVars /\ UNCHANGED printVars

NeverBail(printed, limit) == 1

\* A test that skips one cover too many.
SkipSolutionOneMore(skipped, every) == every # 1 /\ skipped + 1 <= every

\* The cover is skipped: fewer than `every' covers have come since the
\* last one that was not.
SkipSolution(skipped, every) == every # 1 /\ skipped + 1 < every

\* A filter that is not switched off by --allow_duplicate_words.
FilterIgnoresFlag(reject, rc) == rc = 1

\* The grid is dropped: duplicate rejection is on and rc, the value of
\* grid_contains_duplicates, is 1.
FilterRejects(reject, rc) == reject = 1 /\ rc = 1

\* A comparison that is off by one.
BailOneEarly(printed, limit) == IF printed + 1 = limit THEN -99 ELSE 1

\* -99 makes dance_solve bail out once the limit is reached.
BailOrCount(printed, limit) == IF printed = limit THEN -99 ELSE 1

\* Step 1 with print_crossword_result as the callback.
PrintCrosswordResult ==
    /\ pc = "search"
    /\ mat.right[Root(mat)] = Root(mat)
    /\ LET rows == StackRows(mat, solution)
           skip == SkipSolution(skipped_so_far, PrintEveryNthSolution)
           g    == Decode(mat, solution, grid, UseNaiveMethod)
           dup  == FilterRejects(RejectDuplicateWords, grid_contains_duplicates(g, w, h))
           ret  == BailOrCount(printed_so_far + 1, NumSolutions)
       IN  IF skip
           THEN /\ skipped_so_far' = skipped_so_far + 1
                /\ result' = 0
                /\ cblog' = Append(cblog, [rows |-> rows, ret |-> 0])
                /\ pc' = "return"
                /\ UNCHANGED <<printed_so_far, out>>
           ELSE IF ~(NumSolutions = -1 \/ printed_so_far < NumSolutions)
           THEN /\ skipped_so_far' = IF PrintEveryNthSolution # 1 THEN 0 ELSE skipped_so_far
                /\ pc' = "assert"
                /\ UNCHANGED <<result, cblog, printed_so_far, out>>
           ELSE IF dup
           THEN /\ skipped_so_far' = IF PrintEveryNthSolution # 1 THEN 0 ELSE skipped_so_far
                /\ result' = 0
                /\ cblog' = Append(cblog, [rows |-> rows, ret |-> 0])
                /\ pc' = "return"
                /\ UNCHANGED <<printed_so_far, out>>
           ELSE /\ skipped_so_far' = IF PrintEveryNthSolution # 1 THEN 0 ELSE skipped_so_far
                /\ out' = Append(out, g)
                /\ printed_so_far' = printed_so_far + 1
                /\ result' = ret
                /\ cblog' = Append(cblog, [rows |-> rows, ret |-> ret])
                /\ pc' = "return"
    /\ UNCHANGED <<mat, solution, colstack, counts, premat, ns, dict, cursor>>
    /\ UNCHANGED flagVars

Next ==
    \/ CheckInputGrid
    \/ XdictLoad
    \/ StripDict
    \/ XwordSolveInit
    \/ AddRowsForWord
    \/ XwordSolveStart
    \/ PrintCrosswordResult
    \/ SolveInfeasible
    \/ SolveDescend
    \/ SolveNextRow
    \/ SolveBacktrack
    \/ SolveBail
    \/ SolveReturn

Spec == Init /\ [][Next]_vars

(***************************************************************************)
(* The content of a matrix, independent of its links.                      *)
(***************************************************************************)
\* The column indexes holding a 1 in row r.
RowSet(m, r) == {m.column[x] - 1 : x \in {y \in 1..Len(m.row) : m.row[y] = r}}

\* Exactly one 1 of the rows of S in every column.
IsExactCover(m, S) ==
    \A c \in 0..(m.ncolumns - 1) : Cardinality({r \in S : c \in RowSet(m, r)}) = 1

SeqRange(s) == {s[i] : i \in 1..Len(s)}

NoRepeat(s) == \A i, j \in 1..Len(s) : s[i] = s[j] => i = j

\* C1: every row set handed to the callback has exactly one 1 in every
\* column of the matrix, and no row twice.
SolveSound ==
    \A i \in 1..Len(cblog) :
        /\ NoRepeat(cblog[i].rows)
        /\ IsExactCover(mat, SeqRange(cblog[i].rows))

\* A run in which a cover of two or more rows reached the callback.
SolveSoundWitness ==
    /\ pc = "done"
    /\ \E i \in 1..Len(cblog) : Len(cblog[i].rows) >= 2

\* The covers of the matrix: the row sets with exactly one 1 per column.
ExactCovers(m) == {S \in SUBSET (1..m.nrows) : IsExactCover(m, S)}

NoNegativeReturn == \A i \in 1..Len(cblog) : cblog[i].ret >= 0

\* C2: when the callback never returns a negative value, every exact cover
\* of the matrix is handed to the callback, and exactly once.
SolveComplete ==
    (pc = "done" /\ NoNegativeReturn) =>
        \A S \in ExactCovers(mat) :
            Cardinality({i \in 1..Len(cblog) : SeqRange(cblog[i].rows) = S}) = 1

\* A finished search of a matrix that has two different covers.
SolveCompleteWitness ==
    /\ pc = "done"
    /\ NoNegativeReturn
    /\ Cardinality(ExactCovers(mat)) >= 2
    /\ Len(cblog) >= 2

\* C3: when solve returns, the header chain, the vertical lists, the
\* horizontal lists and the counts are what they were before the call.
SolveRestores ==
    pc = "done" =>
        /\ mat.left = premat.left /\ mat.right = premat.right
        /\ mat.up = premat.up /\ mat.down = premat.down
        /\ mat.size = premat.size
        /\ mat = premat

\* A search aborted by the callback two levels down, after which solve
\* has returned.
SolveRestoresWitness ==
    /\ pc = "done"
    /\ ns < 0
    /\ Len(cblog) >= 2
    /\ Len(cblog[Len(cblog)].rows) >= 2

(***************************************************************************)
(* The words of a grid.  A run is a maximal across or down sequence of     *)
(* non-black cells, given by its direction and the indexes of its cells.   *)
(***************************************************************************)
RunCells(first, step, k) == [n \in 1..k |-> first + (n - 1) * step]

\* The runs of the line of cells first, first+step, ..., of length n.
LineRuns(g, first, step, n) ==
    {RunCells(first + t[1] * step, step, t[2]) :
        t \in {u \in (0..(n - 1)) \X (1..n) :
                 /\ u[1] + u[2] <= n
                 /\ \A x \in 0..(u[2] - 1) : At(g, first + (u[1] + x) * step) # "#"
                 /\ (u[1] = 0 \/ At(g, first + (u[1] - 1) * step) = "#")
                 /\ (u[1] + u[2] = n \/ At(g, first + (u[1] + u[2]) * step) = "#")}}

MaximalRuns(g, gw, gh) ==
    {[dir |-> "across", cells |-> c] :
        c \in UNION {LineRuns(g, j * gw, 1, gw) : j \in 0..(gh - 1)}}
    \cup
    {[dir |-> "down", cells |-> c] :
        c \in UNION {LineRuns(g, i, gw, gh) : i \in 0..(gw - 1)}}

RunWord(g, run) == [n \in 1..Len(run.cells) |-> At(g, run.cells[n])]

\* The run has a cell that is open (`.', `0' or `1') in grid g.
HasOpenCell(g, run) ==
    \E n \in 1..Len(run.cells) : ~is_fixed_value(At(g, run.cells[n]))

\* The words of the dictionary file, and those of a dictionary in memory.
FileWords == SeqRange(dictfile)

DictWords(d) == UNION {SeqRange(d[k]) : k \in DOMAIN d}

(***************************************************************************)
(* C4                                                                      *)
(***************************************************************************)
\* The callback is about to be entered.
AtCallback == pc = "search" /\ mat.right[Root(mat)] = Root(mat)

\* C4: after the callback has returned a negative value it is not invoked
\* again, dance_solve returns that value, and the callback is never entered
\* with printed_so_far >= NumSolutions when a limit is set.
BailOutProtocol ==
    /\ \A i \in 1..Len(cblog) : cblog[i].ret < 0 => i = Len(cblog)
    /\ (Len(cblog) > 0 /\ cblog[Len(cblog)].ret < 0) => ~AtCallback
    /\ (pc = "done" /\ Len(cblog) > 0 /\ cblog[Len(cblog)].ret < 0) =>
           ns = cblog[Len(cblog)].ret
    /\ AtCallback => (NumSolutions = -1 \/ printed_so_far < NumSolutions)
    /\ pc # "assert"

\* A search with a limit of two grids that was cut short by the second
\* grid, two levels down, and has returned.
BailOutProtocolWitness ==
    /\ pc = "done"
    /\ NumSolutions = 2
    /\ Len(out) = 2
    /\ ns = -99
    /\ Len(cblog[Len(cblog)].rows) >= 2

(***************************************************************************)
(* C5                                                                      *)
(***************************************************************************)
\* The matrix is complete and the search has not begun.
MatrixBuilt == pc = "search" /\ Len(solution) = 0 /\ Len(cblog) = 0

\* The column sets of the rows, by row number.
RowSets(m) ==
    While(LAMBDA st : Append(st, RowSet(m, Len(st) + 1)),
          LAMBDA st : Len(st) = m.nrows,
          <<>>)

\* The exact covers of the matrix, as ExactCovers gives them, computed
\* from the column sets of the rows.
CoversOf(m) ==
    LET rs == RowSets(m)
    IN  {S \in SUBSET (1..m.nrows) :
            /\ UNION {rs[r] : r \in S} = 0..(m.ncolumns - 1)
            /\ \A r1, r2 \in S : r1 = r2 \/ rs[r1] \cap rs[r2] = {}}

\* One node of every row of S, as the search would stack them.
CoverNodes(m, S) ==
    LET rows == AscendingSeq(S)
    IN  [k \in 1..Len(rows) |->
            CHOOSE x \in 1..Len(m.row) :
                /\ m.row[x] = rows[k]
                /\ \A y \in 1..Len(m.row) : m.row[y] = rows[k] => x <= y]

DecodeCover(m, S) == Decode(m, CoverNodes(m, S), grid, UseNaiveMethod)

\* The grids that differ from the input in the open cells only, and hold
\* there a letter the cell admits (`1' admitting the letters of class).
FillingsOver(words, class) ==
    LET runs == {r \in MaximalRuns(grid, w, h) : r.dir = "across" /\ HasOpenCell(grid, r)}
        fill(f) == [c \in 1..Len(grid) |->
                      IF \E r \in runs : \E n \in 1..Len(r.cells) : r.cells[n] = c - 1
                      THEN LET r == CHOOSE q \in runs : \E n \in 1..Len(q.cells) : q.cells[n] = c - 1
                               n == CHOOSE k \in 1..Len(r.cells) : r.cells[k] = c - 1
                           IN  f[r][n]
                      ELSE grid[c]]
        ok(g) == \A c \in 1..Len(grid) :
                    IF is_fixed_value(grid[c]) THEN g[c] = grid[c]
                    ELSE /\ isalpha(g[c])
                         /\ grid[c] = "0" => g[c] \in Vowels
                         /\ grid[c] = "1" => g[c] \in class
    IN  {g \in {fill(f) : f \in {f \in [runs -> words] :
                                    \A r \in runs : Len(f[r]) = Len(r.cells)}} : ok(g)}

\* The admissible fillings as the claim has them: every run spells a word
\* of the dictionary file.  Every open cell is on an across run, so they
\* are among the grids got by choosing a word for every open across run.
AdmissibleFillingsAllRuns ==
    {g \in FillingsOver(FileWords, ConsonantsNoY) :
        \A r \in MaximalRuns(g, w, h) : RunWord(g, r) \in FileWords}

\* C5 as stated: in compressed mode every admissible filling is decoded
\* from exactly one exact cover and every exact cover decodes to an
\* admissible filling, admissible meaning that every run spells a word.
CorrespondenceAllRuns ==
    (MatrixBuilt /\ UseNaiveMethod = 0) =>
        LET decoded  == {[rows |-> S, g |-> DecodeCover(mat, S)] : S \in CoversOf(mat)}
            fillings == AdmissibleFillingsAllRuns
        IN  /\ \A g \in fillings : Cardinality({d \in decoded : d.g = g}) = 1
            /\ \A d \in decoded : d.g \in fillings

\* The fillings in which every run with an open cell spells a word of the
\* dictionary handed to the solver.
AdmissibleFillings ==
    {g \in FillingsOver(DictWords(dict), Consonants) :
        \A r \in MaximalRuns(g, w, h) :
            HasOpenCell(grid, r) => RunWord(g, r) \in DictWords(dict)}

\* How many times the dictionary holds the word.
Copies(d, word) ==
    IF Len(word) \in DOMAIN d
    THEN Cardinality({n \in 1..Len(d[Len(word)]) : d[Len(word)][n] = word})
    ELSE 0

RECURSIVE ProductOfCopies(_, _, _)
ProductOfCopies(d, g, runs) ==
    IF runs = {} THEN 1
    ELSE LET r == CHOOSE q \in runs : TRUE
         IN  Copies(d, RunWord(g, r)) * ProductOfCopies(d, g, runs \ {r})

\* C5: in compressed mode every exact cover decodes to a filling whose
\* runs with an open cell spell words of the solver's dictionary, and every
\* such filling is decoded from one exact cover for each choice of a stored
\* copy of the word of each of those runs: from exactly one when no word is
\* stored twice.
Correspondence ==
    (MatrixBuilt /\ UseNaiveMethod = 0) =>
        LET decoded  == {[rows |-> S, g |-> DecodeCover(mat, S)] : S \in CoversOf(mat)}
            fillings == AdmissibleFillings
            runs     == {r \in MaximalRuns(grid, w, h) : HasOpenCell(grid, r)}
        IN  /\ \A g \in fillings :
                   Cardinality({d \in decoded : d.g = g}) = ProductOfCopies(dict, g, runs)
            /\ \A d \in decoded : d.g \in fillings

\* A compressed-mode matrix with several covers, for a grid with a fixed run
\* that is no dictionary word, each filling decoded from one cover.
CorrespondenceWitness ==
    /\ MatrixBuilt
    /\ UseNaiveMethod = 0
    /\ Cardinality(AdmissibleFillings) >= 2
    /\ Cardinality(CoversOf(mat)) = Cardinality(AdmissibleFillings)
    /\ \E r \in MaximalRuns(grid, w, h) :
           ~HasOpenCell(grid, r) /\ RunWord(grid, r) \notin FileWords

(***************************************************************************)
(* C6                                                                      *)
(***************************************************************************)
\* C6 as stated: in compressed mode every run of three or more cells of an
\* emitted grid spells a word of the dictionary file, the runs made of
\* fixed letters only included.
EmittedRunsInDictionary ==
    UseNaiveMethod = 0 =>
        \A n \in 1..Len(out) : \A r \in MaximalRuns(out[n], w, h) :
            Len(r.cells) >= 3 => RunWord(out[n], r) \in FileWords

\* C6: in both modes, every run of three or more cells of an emitted grid
\* that had an open cell in the input spells a word of the dictionary file,
\* and every run made of fixed letters only is as it was in the input.
OpenRunsInDictionary ==
    \A n \in 1..Len(out) : \A r \in MaximalRuns(out[n], w, h) :
        IF HasOpenCell(grid, r)
        THEN Len(r.cells) >= 3 => RunWord(out[n], r) \in FileWords
        ELSE RunWord(out[n], r) = RunWord(grid, r)

\* A grid emitted in compressed mode with a filled run and with a run of
\* fixed letters that is no dictionary word.
OpenRunsInDictionaryWitness ==
    /\ UseNaiveMethod = 0
    /\ \E n \in 1..Len(out) :
          /\ \E r \in MaximalRuns(out[n], w, h) :
                ~HasOpenCell(grid, r) /\ RunWord(out[n], r) \notin FileWords
          /\ \E r \in MaximalRuns(out[n], w, h) :
                HasOpenCell(grid, r) /\ Len(r.cells) >= 3

(***************************************************************************)
(* C7                                                                      *)
(***************************************************************************)
\* C7 as stated: a `0' cell holds one of aeiouy and a `1' cell a letter
\* that is none of aeiouy.
WildcardsExcludingY ==
    \A n \in 1..Len(out) : \A c \in 1..Len(grid) :
        /\ grid[c] = "0" => out[n][c] \in Vowels
        /\ grid[c] = "1" => out[n][c] \in ConsonantsNoY

\* C7: a `0' cell of the input holds one of aeiouy and a `1' cell one of
\* bcdfghjklmnpqrstvwxyz in every emitted grid: y counts as both.
WildcardsHonored ==
    \A n \in 1..Len(out) : \A c \in 1..Len(grid) :
        /\ grid[c] = "0" => out[n][c] \in Vowels
        /\ grid[c] = "1" => out[n][c] \in Consonants

\* An emitted grid with y in a `1' cell and a vowel in a `0' cell.
WildcardsHonoredWitness ==
    \E n \in 1..Len(out) :
        /\ \E c \in 1..Len(grid) : grid[c] = "1" /\ out[n][c] = "y"
        /\ \E c \in 1..Len(grid) : grid[c] = "0" /\ out[n][c] \in Vowels

(***************************************************************************)
(* C8                                                                      *)
(***************************************************************************)
\* C8: in both modes a cell that held a letter or `#' in the input holds
\* the same character in every emitted grid, and an open cell holds a
\* letter that matches it.
FixedCellsPreserved ==
    \A n \in 1..Len(out) :
        /\ Len(out[n]) = Len(grid)
        /\ \A c \in 1..Len(grid) :
              IF is_fixed_value(grid[c]) THEN out[n][c] = grid[c]
              ELSE isalpha(out[n][c]) /\ matches(grid[c], out[n][c]) # 0

\* A grid emitted in compressed mode for an input with letters, black cells
\* and open cells.
FixedCellsPreservedWitness ==
    /\ UseNaiveMethod = 0
    /\ Len(out) >= 1
    /\ \E c \in 1..Len(grid) : grid[c] = "#"
    /\ \E c \in 1..Len(grid) : isalpha(grid[c])
    /\ \E c \in 1..Len(grid) : ~is_fixed_value(grid[c])

(***************************************************************************)
(* C9                                                                      *)
(***************************************************************************)
\* The cells an Across row writes a letter into: those of the slices where
\* it has a 1 in the left half of a letter pair.  Other rows write nothing.
CellsWritten(m, r) ==
    LET cols == RowSet(m, r)
    IN  IF (\E x \in cols : x % 54 = 52) /\ ~(\E x \in cols : x % 54 = 53)
        THEN {SLICE_TO_CELL(x \div 54, grid, UseNaiveMethod) :
                 x \in {y \in cols : y % 2 = 0 /\ (y % 54) \div 2 # 26}}
        ELSE {}

\* The same for each row of a cover, in the order of the cover.
CellsWrittenBy(m, rows) ==
    While(LAMBDA st : Append(st, CellsWritten(m, rows[Len(st) + 1])),
          LAMBDA st : Len(st) = Len(rows),
          <<>>)

\* C9: an emitted grid holds letters and `#' only, and in the cover just
\* handed to the callback each open cell is written by exactly one Across
\* row.  (Every cover of the log is the last one in the state that follows
\* its callback.)
FullyFilled ==
    /\ \A n \in 1..Len(out) : \A c \in 1..Len(grid) :
           isalpha(out[n][c]) \/ out[n][c] = "#"
    /\ (pc = "return" /\ Len(cblog) > 0) =>
           LET written == CellsWrittenBy(premat, cblog[Len(cblog)].rows)
           IN  \A c \in 1..Len(grid) :
                   ~is_fixed_value(grid[c]) =>
                       Cardinality({k \in 1..Len(written) : (c - 1) \in written[k]}) = 1

\* A grid emitted for an input with three open cells.
FullyFilledWitness ==
    /\ Len(out) >= 1
    /\ Cardinality({c \in 1..Len(grid) : ~is_fixed_value(grid[c])}) >= 3
    /\ Len(cblog[1].rows) >= 4

(***************************************************************************)
(* C10                                                                     *)
(***************************************************************************)
\* C10: with duplicate rejection enabled no emitted grid has two runs,
\* across or down, that spell the same word.
NoDuplicateRuns ==
    RejectDuplicateWords = 1 =>
        \A n \in 1..Len(out) : \A r1, r2 \in MaximalRuns(out[n], w, h) :
            r1 # r2 => RunWord(out[n], r1) # RunWord(out[n], r2)

\* A run with duplicate rejection in which a cover whose grid has the same
\* word twice was dropped and another grid was emitted.
NoDuplicateRunsWitness ==
    /\ RejectDuplicateWords = 1
    /\ pc = "done"
    /\ PrintEveryNthSolution = 1
    /\ Len(out) >= 1
    /\ \E i \in 1..Len(cblog) : cblog[i].ret = 0

(***************************************************************************)
(* C11                                                                     *)
(***************************************************************************)
\* The words of a dictionary in the order xdict_find(dict, "*") visits them.
DictSeq(d) ==
    While(LAMBDA st : [k |-> st.k + 1, ws |-> st.ws \o d[st.k]],
          LAMBDA st : st.k >= XDICT_MAXLENGTH,
          [k |-> 0, ws |-> <<>>]).ws

\* The single-cell rule: the cell admits the letter (`1' admitting the
\* letters of class).
CellAdmits(cell, ch, class) ==
    \/ cell = "."
    \/ cell = "0" /\ ch \in Vowels
    \/ cell = "1" /\ ch \in class
    \/ cell = ch

\* The word fills the one row of the grid.
FitsRow(g, word, class) ==
    /\ Len(word) = Len(g)
    /\ \A n \in 1..Len(g) : CellAdmits(g[n], word[n], class)

\* A grid of one row, three or more cells wide, with no black cell and an
\* open cell.
SingleRowGrid ==
    /\ h = 1 /\ w >= 3
    /\ \A c \in 1..Len(grid) : grid[c] # "#"
    /\ \E c \in 1..Len(grid) : ~is_fixed_value(grid[c])

\* What each Across row of the matrix writes into the input grid, in the
\* order of the rows.
AcrossRowGrids(m) ==
    LET rs == RowSets(m)
        across == SelectSeq([r \in 1..m.nrows |-> r],
                            LAMBDA r : 52 \in {x % 54 : x \in rs[r]})
    IN  [n \in 1..Len(across) |-> DecodeCover(m, {across[n]})]

RECURSIVE SearchCovers(_, _)
RECURSIVE SearchRows(_, _, _, _)

\* Steps 1 to 4 at one level: sol is the stack of the levels above.
SearchCovers(m, sol) ==
    IF m.right[Root(m)] = Root(m) THEN <<sol>>
    ELSE LET c == ChooseColumn(m)
         IN  IF Infeasible(m, c) THEN <<>>
             ELSE LET m1 == Cover(m, c)
                  IN  SearchRows(m1, c, m1.down[c], sol)

\* Step 5: the rows of the covered column c from r down.
SearchRows(m, c, r, sol) ==
    IF r = c THEN <<>>
    ELSE SearchCovers(CoverOthers(m, r), Append(sol, r))
         \o SearchRows(m, c, m.down[r], sol)

\* One call of print_crossword_result on the cover sol; st holds the two
\* static counters, the output so far and the value returned.
PrintResult(st, m, sol, g0, gw, gh, naive, reject, every, limit) ==
    IF SkipSolution(st.skipped, every)
    THEN [st EXCEPT !.skipped = @ + 1, !.ret = 0]
    ELSE LET g == Decode(m, sol, g0, naive)
             skipped == IF every # 1 THEN 0 ELSE st.skipped
         IN  IF FilterRejects(reject, grid_contains_duplicates(g, gw, gh))
             THEN [st EXCEPT !.skipped = skipped, !.ret = 0]
             ELSE [printed |-> st.printed + 1,
                   skipped |-> skipped,
                   out     |-> Append(st.out, g),
                   ret     |-> BailOrCount(st.printed + 1, limit)]

\* The calls on the covers in turn, up to the first negative return.
PrintResults(m, covers, g0, gw, gh, naive, reject, every, limit) ==
    While(LAMBDA st : [n |-> st.n + 1,
                       p |-> PrintResult(st.p, m, covers[st.n], g0, gw, gh,
                                         naive, reject, every, limit)],
          LAMBDA st : st.n > Len(covers) \/ st.p.ret < 0,
          [n |-> 1, p |-> [printed |-> 0, skipped |-> 0, out |-> <<>>, ret |-> 0]]).p

(***************************************************************************)
(* C12                                                                     *)
(***************************************************************************)
\* The grids the run would emit with no limit, its other flags unchanged.
EmittedWithoutLimit ==
    PrintResults(premat, SearchCovers(premat, <<>>), grid, w, h, UseNaiveMethod,
                 RejectDuplicateWords, PrintEveryNthSolution, -1).out

Min(a, b) == IF a < b THEN a ELSE b

\* C12: with a limit of N the grids emitted are the first min(N, T) of the
\* T grids emitted with no limit, and once the N-th grid is emitted the
\* callback has returned a negative value and the search only unwinds.
LimitIsPrefix ==
    /\ pc = "done" =>
           LET all == EmittedWithoutLimit
           IN  out = SubSeq(all, 1, IF NumSolutions = -1 THEN Len(all)
                                    ELSE Min(NumSolutions, Len(all)))
    /\ (NumSolutions # -1 /\ Len(out) = NumSolutions) =>
           /\ cblog[Len(cblog)].ret < 0
           /\ pc \in {"return", "done"}

\* A run with a limit of one, cut short, of a grid that has two or more
\* fillings.
LimitIsPrefixWitness ==
    /\ pc = "done"
    /\ NumSolutions = 1
    /\ Len(out) = 1
    /\ Len(EmittedWithoutLimit) >= 2

(***************************************************************************)
(* C13                                                                     *)
(***************************************************************************)
\* The grids of the covers of the matrix, in the order the search reaches
\* the covers.
CoverGrids ==
    LET covers == SearchCovers(premat, <<>>)
    IN  [n \in 1..Len(covers) |-> Decode(premat, covers[n], grid, UseNaiveMethod)]

\* The grid passes the duplicate filter, or the filter is disabled.
Acceptable(g) == RejectDuplicateWords = 0 \/ grid_contains_duplicates(g, w, h) = 0

\* Every K-th member of a sequence.
EveryNth(s, K) == [n \in 1..(Len(s) \div K) |-> s[n * K]]

\* C13 as stated: with no limit, the grids emitted are the K-th, 2K-th, ...
\* of the grids that would be emitted with K = 1.
EveryNthOfAcceptable ==
    (pc = "done" /\ NumSolutions = -1) =>
        out = EveryNth(SelectSeq(CoverGrids, Acceptable), PrintEveryNthSolution)

\* C13: the grids emitted are those of the K-th, 2K-th, ... covers found,
\* every cover counted, that pass the duplicate filter (the first N of them
\* under a limit of N).
EveryNthOfCovers ==
    pc = "done" =>
        LET picked == SelectSeq(EveryNth(CoverGrids, PrintEveryNthSolution), Acceptable)
        IN  out = SubSeq(picked, 1, IF NumSolutions = -1 THEN Len(picked)
                                    ELSE Min(NumSolutions, Len(picked)))

\* A finished run with K = 2 and no limit that emitted a grid, of a matrix
\* one of whose covers does not pass the duplicate filter.
EveryNthOfCoversWitness ==
    /\ pc = "done"
    /\ PrintEveryNthSolution = 2
    /\ NumSolutions = -1
    /\ Len(out) >= 1
    /\ \E n \in 1..Len(CoverGrids) : ~Acceptable(CoverGrids[n])

(***************************************************************************)
(* C14                                                                     *)
(***************************************************************************)
\* Two runs of the grid spell the same word.
HasDuplicateRun(g) ==
    \E r1, r2 \in MaximalRuns(g, w, h) : r1 # r2 /\ RunWord(g, r1) = RunWord(g, r2)

\* The grid of the i-th cover handed to the callback.
CallbackGrid(i) == DecodeCover(premat, SeqRange(cblog[i].rows))

\* C14: the callback returns 0 exactly for the covers it skips (all but
\* every K-th) and for those the duplicate filter drops, the printed count
\* is the number of grids written, and the total of a search that was not
\* cut short is that number too.  (Every cover of the log is the last one
\* in the state that follows its callback.)
OnlyPrintedCount ==
    /\ printed_so_far = Len(out)
    /\ Len(out) = Cardinality({i \in 1..Len(cblog) : cblog[i].ret # 0})
    /\ (pc = "return" /\ Len(cblog) > 0) =>
           LET i == Len(cblog)
           IN  cblog[i].ret = 0 <=>
                   \/ i % PrintEveryNthSolution # 0
                   \/ RejectDuplicateWords = 1 /\ HasDuplicateRun(CallbackGrid(i))
    /\ (pc = "done" /\ ns >= 0) => ns = Len(out)

\* A search that ran to its end, in which a cover was dropped by the
\* duplicate filter and another was printed.
OnlyPrintedCountWitness ==
    /\ pc = "done"
    /\ ns >= 1
    /\ \E i \in 1..Len(cblog) :
          /\ cblog[i].ret = 0
          /\ i % PrintEveryNthSolution = 0
          /\ HasDuplicateRun(CallbackGrid(i))

(***************************************************************************)
(* C15                                                                     *)
(***************************************************************************)
\* Two complete runs of the input grid, open cells in neither, spell the
\* same word.
InputHasDuplicate ==
    \E r1, r2 \in MaximalRuns(grid, w, h) :
        /\ r1 # r2
        /\ ~HasOpenCell(grid, r1) /\ ~HasOpenCell(grid, r2)
        /\ RunWord(grid, r1) = RunWord(grid, r2)

\* C15: with duplicate rejection, an input grid with the same complete run
\* twice ends the program in an error before the dictionary is loaded and
\* the matrix built, with nothing emitted; without it the program never
\* stops there and a search that runs to its end, every cover printed,
\* emits the grid of every cover, repeated words or not.
InitialDuplicateCheck ==
    /\ (RejectDuplicateWords = 1 /\ InputHasDuplicate) =>
           /\ pc \in {"start", "error"}
           /\ out = <<>> /\ cblog = <<>>
           /\ dict = xdict_init /\ mat = dance_init(0)
    /\ RejectDuplicateWords = 0 =>
           /\ pc # "error"
           /\ (pc = "done" /\ ns >= 0 /\ PrintEveryNthSolution = 1) => out = CoverGrids

\* The program has stopped with an error on an input grid that holds the
\* same complete run twice.
InitialDuplicateCheckWitness ==
    /\ pc = "error"
    /\ RejectDuplicateWords = 1
    /\ InputHasDuplicate

(***************************************************************************)
(* C16                                                                     *)
(***************************************************************************)
\* strip_dict has returned.
Stripped == pc \in {"init", "build", "search", "return", "done"}

\* C16: every word strip_dict leaves in the dictionary has a placement in
\* the grid, across or down, that fits it, and with duplicate rejection
\* none of them fits a run of letters exactly.
StripLeavesFittingWords ==
    Stripped =>
        \A k \in 0..(XDICT_MAXLENGTH - 1) : \A word \in SeqRange(dict[k]) :
            LET fits == StripFits(grid, w, h, word, k)
            IN  /\ fits # {0} /\ fits # {}
                /\ RejectDuplicateWords = 1 => 2 \notin fits

(***************************************************************************)
(* SpecMatch: matches applied to one pair of characters.  The pair is the  *)
(* one cell of a grid and the one character of a word; the value returned  *)
(* is left in `result'.                                                    *)
(***************************************************************************)
MatchChars == SeqRange(Chars)

MatchInit ==
    /\ pc = "match"
    /\ \E a \in MatchChars : grid = <<a>>
    /\ w = 1 /\ h = 1
    /\ NumSolutions = -1 /\ RejectDuplicateWords = 1
    /\ UseNaiveMethod = 0 /\ PrintEveryNthSolution = 1
    /\ \E b \in MatchChars : dictfile = << <<b>> >>
    /\ pat = <<>>
    /\ dict = xdict_init
    /\ cursor = <<0, 1>>
    /\ mat = dance_init(0)
    /\ premat = dance_init(0)
    /\ solution = <<>> /\ colstack = <<>> /\ counts = <<>>
    /\ result = 0
    /\ cblog = <<>>
    /\ printed_so_far = 0 /\ skipped_so_far = 0
    /\ out = <<>>
    /\ ns = 0

Matches ==
    /\ pc = "match"
    /\ result' = matches(grid[1], dictfile[1][1])
    /\ pc' = "matched"
    /\ UNCHANGED <<mat, premat, solution, colstack, counts, cblog, ns>>
    /\ UNCHANGED progVars /\ UNCHANGED printVars

MatchNext == Matches

SpecMatch == MatchInit /\ [][MatchNext]_vars

(***************************************************************************)
(* C17                                                                     *)
(***************************************************************************)
\* The table of section 4.B, `1' standing for the letters of class and two
\* equal characters being an exact match when they are letters or when
\* symbols is TRUE.
MatchTable(a, b, class, symbols) ==
    IF a = "#" \/ b = "#" THEN 0
    ELSE IF a = "." \/ b = "." THEN 1
    ELSE IF \E v \in Vowels : {a, b} = {"0", v} THEN 1
    ELSE IF \E c \in class : {a, b} = {"1", c} THEN 1
    ELSE IF a = b /\ (isalpha(a) \/ symbols) THEN 2
    ELSE 0

\* C17 as stated: `1' against y is no match, and so are `0' against `0'
\* and `1' against `1'.
MatchesAsTabled ==
    pc = "matched" =>
        result = MatchTable(grid[1], dictfile[1][1], ConsonantsNoY, FALSE)

\* C17: matches returns what the table states, with `1' against y a loose
\* match and `0' against `0' and `1' against `1' exact matches.
MatchesAsCoded ==
    pc = "matched" =>
        result = MatchTable(grid[1], dictfile[1][1], Consonants, TRUE)

\* matches has found `1' against y a loose match.
MatchesAsCodedWitness ==
    /\ pc = "matched"
    /\ grid[1] = "1" /\ dictfile[1][1] = "y"
    /\ result = 1

(***************************************************************************)
(* C18                                                                     *)
(***************************************************************************)
\* The matrix xword_solve builds for dictionary d in either mode: the rows
\* of the words in the order of xdict_find, then those of naive mode.
BuildMatrix(g, gw, gh, d, naive) ==
    LET words == DictSeq(d)
        m0 == dance_init(27 * 2 * NUMBER_OF_SLICES(g, naive))
        m1 == While(LAMBDA st : [n |-> st.n + 1,
                                 m |-> add_rows_for_word(st.m, g, gw, gh, naive, words[st.n])],
                    LAMBDA st : st.n > Len(words),
                    [n |-> 1, m |-> m0]).m
    IN  IF naive = 1 THEN AddNaiveRows(m1, g, gw, gh) ELSE m1

\* The grids the program emits for the same grid, dictionary and duplicate
\* setting in the other mode, with no limit and every cover printed.
EmittedInOtherMode ==
    LET naive == 1 - UseNaiveMethod
        m == BuildMatrix(grid, w, h, dict, naive)
    IN  PrintResults(m, SearchCovers(m, <<>>), grid, w, h, naive,
                     RejectDuplicateWords, 1, -1).out

MatrixOf(g, gw, gh, lines, naive, reject) ==
    BuildMatrix(g, gw, gh, strip_dict(g, gw, gh, reject, xdict_load(lines)), naive)

FailingWords == 1       \* the failure comes within this many words of the stream

\* One add_row call of add_rows_for_word: st.calls counts the calls made,
\* and the f-th of them fails.  Its return value is not looked at.
AddRowOrFail(st, fits, m1, f) ==
    IF fits # 1 THEN st
    ELSE [m |-> IF st.calls + 1 = f THEN st.m ELSE m1, calls |-> st.calls + 1]

\* The loop of add_rows_for_word with a failing call.
RECURSIVE AddRowsLoopFailing(_, _, _, _, _, _, _, _)
AddRowsLoopFailing(st, g, gw, gh, naive, word, pos, f) ==
    IF pos >= gw * gh THEN st
    ELSE LET i  == pos % gw
             j  == pos \div gw
             s1 == AddRowOrFail(st, entry_fits_across(g, gw, gh, i, j, word, Len(word)),
                                add_row_across(st.m, g, gw, naive, i, j, word), f)
             s2 == AddRowOrFail(s1, entry_fits_down(g, gw, gh, i, j, word, Len(word)),
                                add_row_down(s1.m, g, gw, naive, i, j, word), f)
         IN  AddRowsLoopFailing(s2, g, gw, gh, naive, word, pos + 1, f)

\* The number of words streamed before the cursor.
WordsBefore(d, c) ==
    Len(DictSeq([k \in 0..(XDICT_MAXLENGTH - 1) |->
                    IF k < c[1] THEN d[k]
                    ELSE IF k = c[1] THEN SubSeq(d[k], 1, c[2] - 1) ELSE <<>>]))

\* xdict_find calls add_rows_for_word on the next word, and one of the
\* add_row calls it makes fails; add_rows_for_word returns 0 all the same
\* and the stream goes on.
AddRowsForWordFails ==
    /\ pc = "build"
    /\ cursor[1] < XDICT_MAXLENGTH
    /\ WordsBefore(dict, cursor) < FailingWords
    /\ LET word  == dict[cursor[1]][cursor[2]]
           calls == AddRowsLoopFailing([m |-> mat, calls |-> 0], grid, w, h,
                                       UseNaiveMethod, word, 0, 0).calls
       IN  \E f \in 1..calls :
               mat' = AddRowsLoopFailing([m |-> mat, calls |-> 0], grid, w, h,
                                         UseNaiveMethod, word, 0, f).m
    /\ cursor' = NextWord(dict, cursor[1], cursor[2] + 1)
    /\ UNCHANGED <<pc, dict>>
    /\ UNCHANGED flagVars /\ UNCHANGED solveVars /\ UNCHANGED printVars

FailNext ==
    \/ CheckInputGrid
    \/ XdictLoad
    \/ StripDict
    \/ XwordSolveInit
    \/ AddRowsForWord
    \/ AddRowsForWordFails
    \/ XwordSolveStart
    \/ PrintCrosswordResult
    \/ SolveInfeasible
    \/ SolveDescend
    \/ SolveNextRow
    \/ SolveBacktrack
    \/ SolveBail
    \/ SolveReturn

SpecFail == Init /\ [][FailNext]_vars

(***************************************************************************)
(* C20                                                                     *)
(***************************************************************************)
\* C20: a failing add_row call aborts the reduction, so that dance_solve is
\* never run on a matrix that lacks a row: whenever the search has been
\* started, the matrix it was given is the complete one.
FailureAbortsReduction ==
    pc \in {"search", "return", "done"} =>
        premat = MatrixOf(grid, w, h, dictfile, UseNaiveMethod, RejectDuplicateWords)

(***************************************************************************)
(* SpecRem: xdict_remmatch applied to a dictionary (xdictlib.c), as the    *)
(* REM command of the dictionary maintenance program applies it.           *)
(***************************************************************************)
MaxRemWords == 3        \* the most words in the dictionary of SpecRem

RECURSIVE xdict_match(_, _)
xdict_match(word, p) ==
    IF p = <<>> THEN word = <<>>
    ELSE IF p[1] = "*"
         THEN \E j \in 0..Len(word) :
                  xdict_match(SubSeq(word, j + 1, Len(word)), Tail(p))
    ELSE IF word = <<>> THEN FALSE
    ELSE IF p[1] = "1" THEN word[1] \in Consonants /\ xdict_match(Tail(word), Tail(p))
    ELSE IF p[1] = "0" THEN word[1] \in Vowels /\ xdict_match(Tail(word), Tail(p))
    ELSE IF p[1] # "?" /\ p[1] # word[1] THEN FALSE
    ELSE xdict_match(Tail(word), Tail(p))

\* The test of one word: memcmp over k characters in xdict_remword,
\* xdict_match in xdict_remmatch.
RemHit(word, p, k, exact) ==
    IF exact THEN SubSeq(word, 1, k) = SubSeq(p, 1, k) ELSE xdict_match(word, p)

\* The removal loop over one array: a word that is hit is overwritten by
\* the last word of the array, the array gets one shorter, and the loop
\* goes on with the next index.
RECURSIVE RemLoop(_, _, _, _, _)
RemLoop(a, i, count, p, exact) ==
    IF i > Len(a) THEN [a |-> a, count |-> count]
    ELSE IF RemHit(a[i], p, Len(a[i]), exact)
         THEN LET n == Len(a) - 1
              IN  RemLoop(SubSeq(IF i # n + 1 THEN [a EXCEPT ![i] = a[n + 1]] ELSE a, 1, n),
                          i + 1, count + 1, p, exact)
         ELSE RemLoop(a, i + 1, count, p, exact)

\* One array searched: -1 for a length the dictionary does not hold.
RemBucket(d, p, k, exact) ==
    IF k >= XDICT_MAXLENGTH \/ k <= 2 THEN [d |-> d, rc |-> -1]
    ELSE LET r == RemLoop(d[k], 1, 0, p, exact)
         IN  [d |-> [d EXCEPT ![k] = r.a], rc |-> r.count]

xdict_remword(d, word, k) ==
    RemBucket(d, word, IF k = 0 THEN Len(word) ELSE k, TRUE)

\* The number of characters of the pattern other than `*'.
PatternLength(p) == Len(SelectSeq(p, LAMBDA ch : ch # "*"))

\* The arrays from length k up, searched in turn.
RECURSIVE RemAllLengths(_, _, _, _)
RemAllLengths(d, p, k, count) ==
    IF k >= XDICT_MAXLENGTH THEN [d |-> d, rc |-> count]
    ELSE LET r == RemLoop(d[k], 1, 0, p, FALSE)
         IN  RemAllLengths([d EXCEPT ![k] = r.a], p, k + 1, count + r.count)

xdict_remmatch(d, p, k) ==
    IF k # 0 /\ "*" \notin SeqRange(p)
    THEN IF "?" \notin SeqRange(p) THEN xdict_remword(d, p, k)
         ELSE RemBucket(d, p, k, FALSE)
    ELSE RemAllLengths(d, p, PatternLength(p), 0)

\* The words and the patterns tried.
RemWords ==
    { <<"f","o","o","d">>, <<"f","o","o","t">>, <<"f","o","r","d">>,
      <<"f","o","o","t","s","t","o","o","l">> }

RemPatterns ==
    { <<"f","o","o","*">>, <<"f","o","o","?">>, <<"f","o","o","d">>,
      <<"f","*","d">>, <<"f","0","0","1">>, <<"f","o">> }

\* The dictionaries tried: up to MaxRemWords different words in any order.
RemFiles ==
    {f \in UNION {[1..n -> RemWords] : n \in 0..MaxRemWords} : NoRepeat(f)}

RemInit ==
    /\ pc = "rem"
    /\ grid = <<>> /\ w = 0 /\ h = 0
    /\ NumSolutions = -1 /\ RejectDuplicateWords = 1
    /\ UseNaiveMethod = 0 /\ PrintEveryNthSolution = 1
    /\ dictfile \in RemFiles
    /\ pat \in RemPatterns
    /\ dict = AddWords(xdict_init, dictfile, 1)
    /\ cursor = <<0, 1>>
    /\ mat = dance_init(0)
    /\ premat = dance_init(0)
    /\ solution = <<>> /\ colstack = <<>> /\ counts = <<>>
    /\ result = 0
    /\ cblog = <<>>
    /\ printed_so_far = 0 /\ skipped_so_far = 0
    /\ out = <<>>
    /\ ns = 0

\* rc = xdict_remmatch(&dict, pattern, k): the REM command passes 0, a
\* caller that knows the length passes it.
XdictRemmatch ==
    /\ pc = "rem"
    /\ \E k \in {0, Len(pat)} :
          LET r == xdict_remmatch(dict, pat, k)
          IN  dict' = r.d /\ result' = r.rc
    /\ pc' = "removed"
    /\ UNCHANGED <<grid, w, h, NumSolutions, RejectDuplicateWords, UseNaiveMethod,
                   PrintEveryNthSolution, dictfile, pat, cursor>>
    /\ UNCHANGED <<mat, premat, solution, colstack, counts, cblog, ns>>
    /\ UNCHANGED printVars

RemNext == XdictRemmatch

SpecRem == RemInit /\ [][RemNext]_vars

(***************************************************************************)
(* C21                                                                     *)
(***************************************************************************)
\* C21: when xdict_remmatch has returned a count, no word left in the
\* dictionary matches the pattern, the count is the number of words that
\* matched before the call, and every word that does not match is still
\* there.
RemmatchRemovesMatches ==
    (pc = "removed" /\ result >= 0) =>
        LET before == SeqRange(dictfile)
            after  == UNION {SeqRange(dict[k]) : k \in 0..(XDICT_MAXLENGTH - 1)}
        IN  /\ \A word \in after : ~xdict_match(word, pat)
            /\ result = Cardinality({word \in before : xdict_match(word, pat)})
            /\ \A word \in before : ~xdict_match(word, pat) => word \in after

(***************************************************************************)
(* SpecLong: xword_solve up to the call of dance_solve, on grids with runs *)
(* of MAX_WORDLEN cells and of one cell less.                              *)
(***************************************************************************)
FifteenLetters ==
    << "a", "b", "c", "d", "e", "f", "g", "h", "i", "j", "k", "l", "m", "n", "o" >>

\* A line of n letters, and the same with its cell `at' open.
LetterLine(n) == SubSeq(FifteenLetters, 1, n)
OpenLine(n, at) == [LetterLine(n) EXCEPT ![at] = "."]

LongGrids ==
    { [w |-> MAX_WORDLEN, h |-> 1, cells |-> LetterLine(MAX_WORDLEN)],
      [w |-> MAX_WORDLEN - 1, h |-> 1, cells |-> LetterLine(MAX_WORDLEN - 1)],
      [w |-> 1, h |-> MAX_WORDLEN, cells |-> LetterLine(MAX_WORDLEN)],
      [w |-> 1, h |-> MAX_WORDLEN - 1, cells |-> LetterLine(MAX_WORDLEN - 1)],
      [w |-> MAX_WORDLEN + 1, h |-> 1, cells |-> Append(LetterLine(MAX_WORDLEN), "#")],
      [w |-> MAX_WORDLEN, h |-> 1, cells |-> OpenLine(MAX_WORDLEN, 8)],
      [w |-> 1, h |-> MAX_WORDLEN, cells |-> OpenLine(MAX_WORDLEN, 8)] }

LongWords == << LetterLine(MAX_WORDLEN), LetterLine(MAX_WORDLEN - 1) >>

LongInit ==
    /\ pc = "start"
    /\ \E gr \in LongGrids : grid = gr.cells /\ w = gr.w /\ h = gr.h
    /\ dictfile = LongWords
    /\ pat = <<>>
    /\ NumSolutions \in {-1} \cup (1..MaxNumSolutions)
    /\ RejectDuplicateWords \in {0, 1}
    /\ UseNaiveMethod \in {0, 1}
    /\ PrintEveryNthSolution \in 1..MaxEveryNth
    /\ dict = xdict_init
    /\ cursor = <<0, 1>>
    /\ mat = dance_init(0)
    /\ premat = dance_init(0)
    /\ solution = <<>> /\ colstack = <<>> /\ counts = <<>>
    /\ result = 0
    /\ cblog = <<>>
    /\ printed_so_far = 0 /\ skipped_so_far = 0
    /\ out = <<>>
    /\ ns = 0

LongNext ==
    \/ CheckInputGrid
    \/ XdictLoad
    \/ StripDict
    \/ XwordSolveInit
    \/ AddRowsForWord
    \/ XwordSolveStart

SpecLong == LongInit /\ [][LongNext]_vars

(***************************************************************************)
(* C22                                                                     *)
(***************************************************************************)
\* C22: in naive mode, when no run of letters of the grid is longer than
\* MAX_WORDLEN cells, no assertion stops the program while the forced rows
\* are added.
NoForcedAssertion ==
    (/\ UseNaiveMethod = 1
     /\ \A r \in MaximalRuns(grid, w, h) :
            ~HasOpenCell(grid, r) => Len(r.cells) <= MAX_WORDLEN)
        => pc # "abort"

(***************************************************************************)
(* C23                                                                     *)
(***************************************************************************)
\* Some cell to fill lies on a run of fewer than 3 cells.
ShortOpenRun(g, gw, gh) ==
    \E r \in MaximalRuns(g, gw, gh) : Len(r.cells) < 3 /\ HasOpenCell(g, r)

\* C23: when a cell to fill lies on an Across or Down run of fewer than 3
\* cells, the callback is never called, nothing is printed, and when
\* dance_solve has returned it has returned 0 and the matrix is the one it
\* was given.
UnsatisfiableEndsCleanly ==
    ShortOpenRun(grid, w, h) =>
        /\ cblog = <<>>
        /\ out = <<>>
        /\ pc # "assert"
        /\ pc = "done" => (ns = 0 /\ mat = premat)

UnsatisfiableEndsCleanlyWitness ==
    /\ ShortOpenRun(grid, w, h)
    /\ grid = GridScenario5.cells
    /\ pc = "done"

(***************************************************************************)
(* C24                                                                     *)
(***************************************************************************)
\* The cells of the grid that are to be filled, and the first column of
\* the slice of a cell.
OpenCells == {cell \in 0..(Len(grid) - 1) : ~is_fixed_value(At(grid, cell))}

SliceBase(cell) == 27 * 2 * CELL_TO_SLICE(cell, grid, UseNaiveMethod)

\* The part of row r of the matrix that lies in the slice starting at s.
RowInSlice(m, r, s) == RowSet(m, r) \cap (s..(s + 53))

\* The largest number of slices of a matrix: one per cell of the largest
\* grid in naive mode.
MaxSlices == 12

\* Across and Down placements in one slice, for every slice and every pair
\* of letters.
PlacementsInterlock ==
    \A k \in 0..(MaxSlices - 1) : \A i, j \in 0..25 :
        LET s == 27 * 2 * k
            A == SeqRange(AcrossSlice(s, i))
            D == SeqRange(DownSlice(s, j))
        IN  /\ (A \cap D = {} /\ A \cup D = s..(s + 53)) <=> i = j
            /\ A \cap SeqRange(AcrossSlice(s, j)) # {}
            /\ D \cap SeqRange(DownSlice(s, i)) # {}

\* C24: in every slice, an Across placement of letter i and a Down
\* placement of letter j are disjoint and fill the 54 columns exactly when
\* i = j, two Across placements share a column and so do two Down
\* placements; and in every cover handed to the callback each cell to fill
\* is on exactly one Across row and exactly one Down row, which place the
\* same letter.
SliceInterlock ==
    /\ PlacementsInterlock
    /\ NUMBER_OF_SLICES(grid, UseNaiveMethod) <= MaxSlices
    /\ \A n \in 1..Len(cblog) : \A cell \in OpenCells :
          LET s      == SliceBase(cell)
              S      == SeqRange(cblog[n].rows)
              across == {r \in S : s + 52 \in RowSet(premat, r)}
              down   == {r \in S : s + 53 \in RowSet(premat, r)}
          IN  /\ Cardinality(across) = 1
              /\ Cardinality(down) = 1
              /\ \E i \in 0..25 :
                    /\ \A r \in across :
                          RowInSlice(premat, r, s) = SeqRange(AcrossSlice(s, i))
                    /\ \A r \in down :
                          RowInSlice(premat, r, s) = SeqRange(DownSlice(s, i))

SliceInterlockWitness ==
    /\ pc = "done"
    /\ Cardinality(OpenCells) >= 2
    /\ Len(cblog) >= 2

(***************************************************************************)
(* C25                                                                     *)
(***************************************************************************)
\* The headers still linked into the header chain; the chain lists them in
\* the order of their indexes.
UncoveredColumns(m) == {c \in 1..m.ncolumns : m.right[m.left[c]] = c}

\* The nodes linked into the list of column header c.
ColumnNodes(m, c) ==
    {o \in (m.ncolumns + 2)..Len(m.column) : m.column[o] = c /\ m.down[m.up[o]] = o}

\* The uncovered column of least count, the first of them on a tie.
MinColumn(m) ==
    CHOOSE c \in UncoveredColumns(m) :
        \A d \in UncoveredColumns(m) :
            m.size[c] < m.size[d] \/ (m.size[c] = m.size[d] /\ c <= d)

\* The node of S that belongs to the row added first.
FirstAdded(m, S) == CHOOSE o \in S : \A q \in S : m.row[o] <= m.row[q]

\* C25: a step that finds the header chain non-empty branches on the
\* uncovered column of least count, the first of them along the chain; when
\* that count is 0 it returns 0, calls nothing and leaves the matrix alone;
\* otherwise it tries the rows of the column in the order they were added.
SHeuristic ==
    [][ /\ (pc = "search" /\ mat.right[Root(mat)] # Root(mat)) =>
              LET c == MinColumn(mat)
              IN  IF mat.size[c] = 0
                  THEN /\ pc' = "return" /\ result' = 0
                       /\ mat' = mat /\ cblog' = cblog /\ solution' = solution
                  ELSE /\ pc' = "search"
                       /\ colstack' = Append(colstack, c)
                       /\ solution' = Append(solution, FirstAdded(mat, ColumnNodes(mat, c)))
                       /\ cblog' = cblog
        /\ (pc = "return" /\ Len(solution) > 0 /\ result >= 0) =>
              LET k     == Len(solution)
                  later == {o \in ColumnNodes(mat, colstack[k]) :
                               mat.row[o] > mat.row[solution[k]]}
              IN  IF later = {}
                  THEN solution' = SubSeq(solution, 1, k - 1)
                  ELSE solution' = [solution EXCEPT ![k] = FirstAdded(mat, later)]
      ]_vars

\* The search has branched, and now the first column of the chain has more
\* rows than a later one.
SHeuristicWitness ==
    /\ pc = "search"
    /\ Len(colstack) >= 1
    /\ mat.right[Root(mat)] # Root(mat)
    /\ mat.size[mat.right[Root(mat)]] > mat.size[MinColumn(mat)]

(***************************************************************************)
(* C26                                                                     *)
(***************************************************************************)
\* What a fit of the word at cell (i, j) in direction dir is to return:
\* 0 when the word runs off the grid, when the cell before or after it is
\* on the grid and not black, or when a cell does not match; otherwise 2
\* when every cell matches exactly, and 1 when not.
FitExpected(g, gw, gh, i, j, word, dir) ==
    LET wlen   == Len(word)
        step   == IF dir = "across" THEN 1 ELSE gw
        along  == IF dir = "across" THEN i ELSE j
        n      == IF dir = "across" THEN gw ELSE gh
        first  == j * gw + i
        off    == along + wlen > n
        before == along > 0 /\ At(g, first - step) # "#"
        after  == along + wlen < n /\ At(g, first + wlen * step) # "#"
        rc(k)  == matches(At(g, first + (k - 1) * step), word[k])
    IN  IF off \/ before \/ after \/ (\E k \in 1..wlen : rc(k) = 0) THEN 0
        ELSE IF \A k \in 1..wlen : rc(k) = 2 THEN 2 ELSE 1

\* The placements of the word that fit loosely, and the columns of the row
\* of a placement.
LoosePlacements(word) ==
    {p \in (0..(w * h - 1)) \X {"across", "down"} :
        FitExpected(grid, w, h, p[1] % w, p[1] \div w, word, p[2]) = 1}

PlacementColumns(word, p) ==
    IF p[2] = "across"
    THEN SeqRange(AcrossConstraint(grid, w, UseNaiveMethod, p[1] % w, p[1] \div w, word, 0))
    ELSE SeqRange(DownConstraint(grid, w, UseNaiveMethod, p[1] % w, p[1] \div w, word, 0))

FitsAsExpected ==
    \A word \in FileWords : \A pos \in 0..(w * h - 1) :
        /\ entry_fits_across(grid, w, h, pos % w, pos \div w, word, Len(word))
              = FitExpected(grid, w, h, pos % w, pos \div w, word, "across")
        /\ entry_fits_down(grid, w, h, pos % w, pos \div w, word, Len(word))
              = FitExpected(grid, w, h, pos % w, pos \div w, word, "down")

RowsForLooseFits ==
    (pc = "build" /\ cursor[1] < XDICT_MAXLENGTH) =>
        LET word == dict[cursor[1]][cursor[2]]
        IN  /\ mat'.nrows = mat.nrows + Cardinality(LoosePlacements(word))
            /\ {RowSet(mat', r) : r \in (mat.nrows + 1)..(mat'.nrows)}
                  = {PlacementColumns(word, p) : p \in LoosePlacements(word)}

\* C26: entry_fits_across and entry_fits_down return 0, 1 or 2 as
\* FitExpected says, for every word of the file at every cell; and the call
\* of add_rows_for_word for a word adds one row for each placement of the
\* word that fits loosely, and no other row.
RunFit == []FitsAsExpected /\ [][RowsForLooseFits]_vars

\* The matrix is built, rows were added, and some word of the file fits a
\* run exactly.
RunFitWitness ==
    /\ pc = "search"
    /\ premat.nrows > 0
    /\ \E word \in FileWords : \E pos \in 0..(w * h - 1) :
          entry_fits_across(grid, w, h, pos % w, pos \div w, word, Len(word)) = 2

(***************************************************************************)
(* C27                                                                     *)
(***************************************************************************)
\* C27: in compressed mode CELL_TO_SLICE maps the cells to fill onto
\* 0..K-1, K = NUMBER_OF_SLICES, in row-major order; SLICE_TO_CELL is its
\* inverse and returns no fixed cell; and every column of every row of the
\* matrix is below 54*K.
SliceTableBijection ==
    LET K == NUMBER_OF_SLICES(grid, 0)
    IN  /\ {CELL_TO_SLICE(c, grid, 0) : c \in OpenCells} = 0..(K - 1)
        /\ \A c, d \in OpenCells :
              c < d => CELL_TO_SLICE(c, grid, 0) < CELL_TO_SLICE(d, grid, 0)
        /\ \A c \in OpenCells : SLICE_TO_CELL(CELL_TO_SLICE(c, grid, 0), grid, 0) = c
        /\ \A sl \in 0..(K - 1) :
              /\ SLICE_TO_CELL(sl, grid, 0) \in OpenCells
              /\ CELL_TO_SLICE(SLICE_TO_CELL(sl, grid, 0), grid, 0) = sl
        /\ (UseNaiveMethod = 0 /\ pc \in {"build", "search", "return", "done"}) =>
              /\ mat.ncolumns = 54 * K
              /\ \A r \in 1..mat.nrows : RowSet(mat, r) \subseteq 0..(54 * K - 1)

\* A matrix built in compressed mode for a grid in which a fixed cell comes
\* before a cell to fill.
SliceTableBijectionWitness ==
    /\ UseNaiveMethod = 0
    /\ pc = "search"
    /\ mat.nrows > 0
    /\ \E c \in OpenCells : CELL_TO_SLICE(c, grid, 0) # c

(***************************************************************************)
(* C28                                                                     *)
(***************************************************************************)
\* The maximal runs made of letters only, and those holding a letter.
LetteredRuns ==
    {r \in MaximalRuns(grid, w, h) : \A n \in 1..Len(r.cells) : isalpha(At(grid, r.cells[n]))}

TouchedRuns ==
    {r \in MaximalRuns(grid, w, h) : \E n \in 1..Len(r.cells) : isalpha(At(grid, r.cells[n]))}

\* The columns of the row that places the letters of a run with the pattern
\* of its direction, in the slices of naive mode.
ForcedRowColumns(r) ==
    UNION {IF r.dir = "across"
           THEN SeqRange(AcrossSlice(27 * 2 * cell, ch2idx(At(grid, cell))))
           ELSE SeqRange(DownSlice(27 * 2 * cell, ch2idx(At(grid, cell)))) :
              cell \in {x \in SeqRange(r.cells) : isalpha(At(grid, x))}}

\* The step of xword_solve that adds the rows of naive mode adds, besides
\* one row per black cell, exactly one row for each run of the set, with
\* the columns of that run, and no other row.
NaiveStepForces(runs) ==
    (pc = "build" /\ pc' = "search" /\ UseNaiveMethod = 1) =>
        LET black == {(27 * 2 * cell)..(27 * 2 * cell + 53) :
                         cell \in {x \in 0..(Len(grid) - 1) : At(grid, x) = "#"}}
        IN  /\ mat'.nrows = mat.nrows + Cardinality(black) + Cardinality(runs)
            /\ {RowSet(mat', r) : r \in (mat.nrows + 1)..(mat'.nrows)}
                  = black \cup {ForcedRowColumns(r) : r \in runs}

SortNormalises ==
    pc = "strip" =>
        \A k \in 0..(XDICT_MAXLENGTH - 1) :
            /\ \A n \in 1..(Len(dict[k]) - 1) : StrLess(dict[k][n], dict[k][n + 1])
            /\ SeqRange(dict[k])
                  = {word \in FileWords : Len(word) = k /\ k > 2}

(***************************************************************************)
(* SpecDup: main's check of the input grid, on every small grid.           *)
(***************************************************************************)
\* Width and height of the grids tried, and the characters of their cells.
DupShapes == { <<3, 1>>, <<1, 3>>, <<2, 2>>, <<3, 2>>, <<2, 3>> }

DupChars == {"a", "b", "#", "."}

DupInit ==
    /\ pc = "start"
    /\ \E shape \in DupShapes :
          /\ w = shape[1] /\ h = shape[2]
          /\ grid \in [1..(shape[1] * shape[2]) -> DupChars]
    /\ RejectDuplicateWords \in {0, 1}
    /\ NumSolutions = -1
    /\ UseNaiveMethod = 0 /\ PrintEveryNthSolution = 1
    /\ dictfile = <<>>
    /\ pat = <<>>
    /\ dict = xdict_init
    /\ cursor = <<0, 1>>
    /\ mat = dance_init(0)
    /\ premat = dance_init(0)
    /\ solution = <<>> /\ colstack = <<>> /\ counts = <<>>
    /\ result = 0
    /\ cblog = <<>>
    /\ printed_so_far = 0 /\ skipped_so_far = 0
    /\ out = <<>>
    /\ ns = 0

DupNext == CheckInputGrid

SpecDup == DupInit /\ [][DupNext]_vars

(***************************************************************************)
(* C30                                                                     *)
(***************************************************************************)
\* Two different maximal runs of 3 or more cells, with no `.', `0' or `1',
\* spell the same string.
TwoRunsCoincide(g, gw, gh) ==
    \E r1, r2 \in MaximalRuns(g, gw, gh) :
        /\ r1 # r2
        /\ Len(r1.cells) >= 3
        /\ ~HasOpenCell(g, r1) /\ ~HasOpenCell(g, r2)
        /\ RunWord(g, r1) = RunWord(g, r2)

\* C30: with duplicate rejection on, main refuses the input grid, that is
\* grid_contains_duplicates returns 1, exactly when two different maximal
\* runs of 3 or more cells without `.', `0', `1' spell the same string.
DuplicatesAreRuns ==
    (RejectDuplicateWords = 1 /\ pc # "start") =>
        (pc = "error" <=> TwoRunsCoincide(grid, w, h))
====
